---- MODULE Spec2Model ----
(***************************************************************************)
(* Language Server Gateway of horizon (src-tauri/src/lsp).                 *)
(*                                                                         *)
(* The specifications share the adapter and child-process definitions:     *)
(*   SpecLink      one RustLanguageServer driven through its LanguageServer *)
(*                 interface, with the link to the child step by step:     *)
(*                 concurrent send_request callers, the pending-request    *)
(*                 table, the read_responses thread, the child's answers.  *)
(*   SpecPending   the same link with repeated and stray responses.        *)
(*   SpecFraming   the same link with read_responses line by line and a    *)
(*                 child whose frames may be malformed.                    *)
(*   SpecWrites    concurrent writes of frames to the child, write by      *)
(*                 write, with the Mutex around its stdin.                 *)
(*   SpecDocs      the document handlers of the adapter, and shutdown.     *)
(*   SpecDocSteps  the document handlers statement by statement.           *)
(*   SpecRequests  the five request handlers of the adapter.               *)
(*   Spec          one WebSocket connection of WebSocketManager: the reader *)
(*                 task, handle_message, the connection's ServerFactory.   *)
(*   SpecDetect    initialize with the language left to be detected.       *)
(*   SpecOrder     one connection whose frames arrive while one is handled. *)
(*   SpecIsolation two connections of one manager.                         *)
(*   SpecEntry     find_project_root, create_server and start_lsp_server.  *)
(*   SpecRoot      find_project_root turn by turn.                         *)
(*   SpecRootAgain the same, with relative paths and calls on results.     *)
(*   SpecCapabilities get_server_capabilities on a connection's factory.   *)
(*   SpecLifecycle start and stop of the WebSocket listener, with clients. *)
(*   SpecRetry     the same without clients.                               *)
(***************************************************************************)
EXTENDS Integers, Sequences, FiniteSets, TLC

(* ------------------------------ bounds -------------------------------- *)
\* Concurrent callers of the adapter.
MaxCallers == 2
\* Frames the client side may make the adapter write to the child.
MaxStdin == 2
\* Frames the child emits on its own: notifications, and responses nobody
\* is waiting for.
MaxNotifs == 1
\* Frames one WebSocket connection delivers to its reader task.
MaxFrames == 2
\* Depth of the deepest directory of the file system.
MaxDepth == 12
\* Calls of the entry points that take a path, per behaviour.
MaxCalls == 2
\* WebSocket connections accepted by the listeners of the process.
MaxClients == 2
\* Calls of stop_lsp_websocket_server and cleanup_on_exit, per behaviour.
MaxStops == 2
\* Calls of LanguageServer::shutdown on one adapter.
MaxShutdowns == 2
\* Text frames that reach the socket of one connection.
MaxArrivals == 3
\* Frames concurrent callers write to the stdin of one child.
MaxWrites == 3

URIs == {"u1", "u2"}
Texts == {"t1", "t2"}
\* contentChanges lists of a didChange: empty, one change, two changes.
ChangeLists == {<<>>, <<"t1">>, <<"t2">>, <<"t1", "t2">>, <<"t2", "t1">>}
\* Methods the adapter forwards with send_request (rust.rs 474-582).
RequestMethods == {"textDocument/hover"}
Callers == 1..MaxCallers
\* URIs the child publishes diagnostics for.
DiagnosticURIs == {"u1"}

VARIABLES
    adapters,           \* server id -> RustLanguageServer state
    children,           \* child id -> spawned rust-analyzer process
    response_handlers,  \* request id -> waiting caller (the oneshot sender)
    callers,            \* caller -> position in send_request and its receiver
    child_stdout,       \* frames the child wrote that read_responses has not read
    reader,             \* read_responses thread: "none", "running", "stopped"
    answered,           \* indexes of stdin requests the child has answered
    notification_rx,    \* notifications delivered to the adapter's channel
    notifs_emitted,     \* frames the child has written on its own
    notifs_read,        \* notification frames read_responses has consumed
    wire,               \* the child's stdout not yet read, as header lines and
                        \* bodies (child_stdout holds whole, well-framed frames)
    content_length,     \* local of read_responses
    stdin_lock,         \* the Mutex around the child's stdin: 0 is free, else
                        \* the caller that holds its guard
    writers,            \* caller -> position in the write of a frame, and the
                        \* parts of the frame not yet written
    pipe,               \* the parts written to the child's stdin, in order
    last_call,          \* the document handler that returned last
    opened,             \* URIs with a didOpen handled and no didClose after it
    written,            \* URIs with a didOpen or non-empty didChange handled
                        \* and no didClose after it
    shutdown_calls,     \* calls of LanguageServer::shutdown that have returned,
                        \* and what the last one returned
    last_request,       \* the request handler of the adapter that returned last
    doc_step,           \* a document handler statement by statement: the call,
                        \* the statements done, the store when it forwarded
    backward_task,      \* reader task of the connection: "reading", "blocked",
                        \* "panicked", "done"
    forward_task,       \* task draining the reply channel: "running", "ended"
    active_server,      \* Option<String> of the reader task: 0 is None
    servers,            \* ids registered in the connection's ServerFactory
    next_id,            \* ServerFactory::next_id
    handled,            \* frames the reader task has taken from the socket
    last,               \* the frame handled last, what was there before, the reply
    closed,             \* how the reader task left its loop, and with which session
    factories,          \* the ServerFactory values of a manager: 1 is its own
    peers,              \* connection -> its factory, session, replies queued
    shadow,             \* connection "B" and its factory, had it been alone
    ws_rx,              \* text frames the socket holds for the reader task, oldest
                        \* first, each with its number of arrival
    in_hand,            \* the frames a call of handle_message is running on
    tx,                 \* what the reader task has sent on the reply channel
    arrived,            \* frames that have reached the socket
    ACTIVE_SERVERS,     \* languages with an entry in the stdio-mode registry
    stdio_calls,        \* caller -> position in start_lsp_server
    server_threads,     \* threads start_lsp_server has spawned
    entry,              \* the call of an entry point that returned last
    walk,               \* a call of find_project_root, turn by turn
    WS_SERVER_RUNNING,  \* the running flag
    WS_MANAGER,         \* Option<WebSocketManager>: 0 is None, else the manager
    managers,           \* manager -> its clients registry (connection ids)
    ws_calls,           \* caller -> position in start_lsp_websocket_server
    ws_threads,         \* threads start_lsp_websocket_server has spawned
    ports,              \* port offset -> Free, Foreign, or the thread listening
    connections,        \* accepted WebSocket connections
    last_op             \* the stop or cleanup call that returned last

framevars == <<wire, content_length>>
writevars == <<stdin_lock, writers, pipe>>
linkvars == <<response_handlers, callers, child_stdout, reader, answered,
              notification_rx, notifs_emitted, notifs_read, framevars,
              writevars>>
docvars == <<last_call, opened, written, shutdown_calls, last_request, doc_step>>
isovars == <<factories, peers, shadow>>
ordervars == <<ws_rx, in_hand, tx, arrived>>
gatewayvars == <<backward_task, forward_task, active_server, servers, next_id,
                 handled, last, closed, isovars, ordervars>>
wsvars == <<WS_SERVER_RUNNING, WS_MANAGER, managers, ws_calls, ws_threads, ports,
            connections, last_op>>
hostvars == <<ACTIVE_SERVERS, stdio_calls, server_threads, entry, walk, wsvars>>
vars == <<adapters, children, linkvars, docvars, gatewayvars, hostvars>>

(* ------------------------- maps (HashMap, DashMap) -------------------- *)
EmptyMap == [k \in {} |-> 0]

Put(m, k, v) == [x \in DOMAIN m \cup {k} |-> IF x = k THEN v ELSE m[x]]

Remove(m, k) == [x \in DOMAIN m \ {k} |-> m[x]]

(* ----------------------- LspProcessConnection ------------------------- *)
\* Option<LspProcessConnection> of the adapter; stdin and response_handlers
\* are Arcs shared by every clone, next_id is a field of each value.
NoConnection == [some |-> FALSE, next_id |-> 0, child |-> 0]

\* LspProcessConnection::new: next_id starts at 1.
NewConnection(k) == [some |-> TRUE, next_id |-> 1, child |-> k]

\* impl Clone: a fresh AtomicU64 holding the value loaded from the original.
CloneConnection(conn) == [some |-> conn.some, next_id |-> conn.next_id, child |-> conn.child]

(* --------------------------- RustLanguageServer ----------------------- *)
\* RustLanguageServer::new
\* with the fields of the RustLspAdapter that wraps it in a ServerFactory:
\* its language and the root_path it was created for.
NewAdapter ==
    [process |-> 0, is_initialized |-> FALSE, lsp_connection |-> NoConnection,
     notification_tx |-> FALSE, document_data |-> EmptyMap,
     document_states |-> EmptyMap, language |-> "rust", root_path |-> <<>>]

\* RustLspAdapter::new
NewRustLspAdapter(language, root_path) ==
    [NewAdapter EXCEPT !.language = language, !.root_path = root_path]

NewChild == [alive |-> TRUE, stdin |-> <<>>]

Frame(method, id, from) == [method |-> method, id |-> id, from |-> from]

\* write_all + flush on the child's stdin: fails once the child is gone.
WriteFrame(w, k, f) ==
    IF w.children[k].alive
    THEN [w EXCEPT !.children[k].stdin = Append(@, f)]
    ELSE w

\* LspProcessConnection::send_notification through RustLanguageServer::send_notification:
\* an error (no connection, write failure) is logged by the caller.
SendNotification(w, s, method) ==
    LET conn == CloneConnection(w.adapters[s].lsp_connection)
    IN IF conn.some THEN WriteFrame(w, conn.child, Frame(method, 0, 0)) ELSE w

\* BaseLanguageServer::initialize after a successful spawn.
BaseInitialize(w, s) ==
    LET k == Len(w.children) + 1
    IN [w EXCEPT !.adapters[s] =
                     [@ EXCEPT !.process = k,
                               !.is_initialized = TRUE,
                               !.lsp_connection = NewConnection(k),
                               !.notification_tx = TRUE],
                 !.children = Append(@, NewChild)]

\* Mutant of BaseShutdown: the process handle is left in the adapter.
BaseShutdown_keeps_process(w, s) ==
    LET a == w.adapters[s]
        k == a.process
        w1 == SendNotification(w, s, "shutdown")
        w2 == SendNotification(w1, s, "exit")
    IN IF k = 0 THEN w
       ELSE [w2 EXCEPT !.adapters[s] =
                           [@ EXCEPT !.is_initialized = FALSE,
                                     !.lsp_connection = NoConnection,
                                     !.notification_tx = FALSE],
                       !.children[k].alive = FALSE]

\* Mutant of BaseShutdown: the child is killed before the two notifications
\* are written.
BaseShutdown_kills_first(w, s) ==
    LET a == w.adapters[s]
        k == a.process
        w0 == IF k = 0 THEN w ELSE [w EXCEPT !.children[k].alive = FALSE]
        w1 == SendNotification(w0, s, "shutdown")
        w2 == SendNotification(w1, s, "exit")
    IN IF k = 0 THEN w
       ELSE [w2 EXCEPT !.adapters[s] =
                           [@ EXCEPT !.process = 0,
                                     !.is_initialized = FALSE,
                                     !.lsp_connection = NoConnection,
                                     !.notification_tx = FALSE]]

\* BaseLanguageServer::shutdown
BaseShutdown(w, s) ==
    LET a == w.adapters[s]
        k == a.process
        w1 == SendNotification(w, s, "shutdown")
        w2 == SendNotification(w1, s, "exit")
    IN IF k = 0 THEN w
       ELSE [w2 EXCEPT !.adapters[s] =
                           [@ EXCEPT !.process = 0,
                                     !.is_initialized = FALSE,
                                     !.lsp_connection = NoConnection,
                                     !.notification_tx = FALSE],
                       !.children[k].alive = FALSE]

NoDiagnostics == "none"

DocumentData(content, diagnostics) == [content |-> content, diagnostics |-> diagnostics]

\* Mutant of did_open: the legacy collection is not written.
did_open_without_legacy(w, s, uri, text) ==
    LET w1 == [w EXCEPT !.adapters[s].document_data =
                            Put(@, uri, DocumentData(text, NoDiagnostics))]
    IN SendNotification(w1, s, "textDocument/didOpen")

\* did_open
did_open(w, s, uri, text) ==
    LET w1 == [w EXCEPT !.adapters[s].document_data =
                            Put(@, uri, DocumentData(text, NoDiagnostics)),
                        !.adapters[s].document_states = Put(@, uri, text)]
    IN SendNotification(w1, s, "textDocument/didOpen")

\* Mutant of did_change: the first change of the list is stored, not the last.
did_change_first(w, s, uri, changes) ==
    LET new_text == changes[1]
        dd == w.adapters[s].document_data
        w1 == IF changes = <<>> THEN w
              ELSE [w EXCEPT !.adapters[s].document_data =
                                 IF uri \in DOMAIN dd
                                 THEN [dd EXCEPT ![uri].content = new_text]
                                 ELSE Put(dd, uri, DocumentData(new_text, NoDiagnostics)),
                             !.adapters[s].document_states = Put(@, uri, new_text)]
    IN SendNotification(w1, s, "textDocument/didChange")

\* did_change
did_change(w, s, uri, changes) ==
    LET new_text == changes[Len(changes)]
        dd == w.adapters[s].document_data
        w1 == IF changes = <<>> THEN w
              ELSE [w EXCEPT !.adapters[s].document_data =
                                 IF uri \in DOMAIN dd
                                 THEN [dd EXCEPT ![uri].content = new_text]
                                 ELSE Put(dd, uri, DocumentData(new_text, NoDiagnostics)),
                             !.adapters[s].document_states = Put(@, uri, new_text)]
    IN SendNotification(w1, s, "textDocument/didChange")

\* Mutant of did_close: only the legacy collection is cleaned up.
did_close_legacy_only(w, s, uri) ==
    LET w1 == [w EXCEPT !.adapters[s].document_states = Remove(@, uri)]
    IN SendNotification(w1, s, "textDocument/didClose")

\* did_close
did_close(w, s, uri) ==
    LET w1 == [w EXCEPT !.adapters[s].document_data = Remove(@, uri),
                        !.adapters[s].document_states = Remove(@, uri)]
    IN SendNotification(w1, s, "textDocument/didClose")

\* handle_diagnostics (reached only from process_notification)
handle_diagnostics(w, s, uri, diagnostics) ==
    LET dd == w.adapters[s].document_data
    IN [w EXCEPT !.adapters[s].document_data =
                     IF uri \in DOMAIN dd
                     THEN [dd EXCEPT ![uri].diagnostics = diagnostics]
                     ELSE Put(dd, uri, DocumentData("", diagnostics))]

(* ------------------------------ file system --------------------------- *)
\* Paths are sequences of names below the root. The tree the gateway looks at:
\* a Rust project, a JavaScript project, and the directories below.
Join(p, name) == Append(p, name)

\* Besides them a chain of nested directories d/d/.../d, MaxDepth deep, with a
\* Cargo.toml in its second directory, a package.json in its fourth and a
\* source file at its bottom.
RECURSIVE Deep(_)
Deep(n) == IF n = 0 THEN <<>> ELSE Append(Deep(n - 1), "d")

\* Directories holding several manifests and source files at once, by name:
\* the files of each.
MixedDirs ==
    [mix |-> {"Cargo.toml", "package.json", "tsconfig.json", "requirements.txt", "app.py"},
     ts |-> {"package.json", "tsconfig.json", "pyproject.toml", "main.rs"},
     js |-> {"package.json", "requirements.txt", "app.ts"},
     py |-> {"pyproject.toml", "main.rs"},
     req |-> {"requirements.txt", "app.ts"},
     scripts |-> {"main.rs", "app.py"},
     tsonly |-> {"tsconfig.json", "notes"}]

Dirs == {<<>>, <<"proj">>, <<"proj", "src">>, <<"web">>}
        \cup {Deep(n) : n \in 1..MaxDepth}
        \cup {<<d>> : d \in DOMAIN MixedDirs}

Files == {<<"proj", "Cargo.toml">>, <<"proj", "src", "main.rs">>,
          <<"web", "package.json">>,
          Join(Deep(2), "Cargo.toml"), Join(Deep(4), "package.json"),
          Join(Deep(MaxDepth), "main.rs")}
         \cup UNION {{<<d, name>> : name \in MixedDirs[d]} : d \in DOMAIN MixedDirs}

\* Relative paths, resolved against the working directory of the process,
\* which holds a Cargo.toml and a directory src: a relative path is the
\* sequence of its names after an empty first name, so that <<"">> is the
\* empty path "": it names nothing (Path::exists fails on it), it is what
\* Path::parent yields for a relative path of one name, and joining a name
\* to it gives that name.
Relative(names) == <<"">> \o names

RelativeDirs == {Relative(<<"src">>)}

RelativeFiles == {Relative(<<"Cargo.toml">>), Relative(<<"src", "main.rs">>)}

\* Path::exists, Path::is_dir, Path::parent (None at the root and for the
\* empty path), Path::join
Exists(p) == p \in Dirs \cup Files \cup RelativeDirs \cup RelativeFiles

IsDir(p) == p \in Dirs \cup RelativeDirs

HasParent(p) == p \notin {<<>>, <<"">>}

Parent(p) == SubSeq(p, 1, Len(p) - 1)

\* std::fs::read_dir
Entries(dir) ==
    {p \in Dirs \cup Files \cup RelativeDirs \cup RelativeFiles :
        HasParent(p) /\ Parent(p) = dir}

\* The text after the last '.' of a name; a name without '.' is no known extension.
Extension(name) ==
    CASE name = "main.rs" -> "rs"
      [] name = "app.ts" -> "ts"
      [] name = "app.py" -> "py"
      [] name \in {"Cargo.toml", "pyproject.toml"} -> "toml"
      [] name \in {"package.json", "tsconfig.json"} -> "json"
      [] name = "requirements.txt" -> "txt"
      [] OTHER -> ""

\* The documents of the client and the paths their URIs name.
UriPath(uri) ==
    CASE uri = "u1" -> <<"proj", "src", "main.rs">>
      [] uri = "u2" -> <<"web", "app.ts">>
      [] OTHER -> <<"missing">>

get_supported_languages == {"rust"}

\* find_project_root: the configuration files looked for, by language.
ConfigFiles(language) ==
    CASE language = "rust" -> {"Cargo.toml"}
      [] language \in {"javascript", "typescript"} -> {"package.json", "tsconfig.json"}
      [] language = "python" -> {"pyproject.toml", "setup.py", "requirements.txt"}
      [] language = "go" -> {"go.mod"}
      [] language \in {"c", "cpp"} -> {"CMakeLists.txt", "Makefile", "configure"}
      [] language = "java" -> {"pom.xml", "build.gradle", "settings.gradle"}
      [] OTHER -> {"Cargo.toml", "package.json", "pyproject.toml", "go.mod",
                   "CMakeLists.txt", "Makefile", "pom.xml", "build.gradle"}

max_iterations == 10

Found(path) == [ok |-> TRUE, val |-> path, err |-> "none"]

\* Err("Podana ścieżka nie istnieje: ...")
NotFound == [ok |-> FALSE, val |-> <<>>, err |-> "path_not_found"]

\* Err("Nie można znaleźć katalogu nadrzędnego dla: ...")
NoParentDir == [ok |-> FALSE, val |-> <<>>, err |-> "no_parent"]

\* Mutant of LoopTurn: the turns are not counted against max_iterations.
LoopTurn_unbounded(config_files, start_dir, current_dir, iterations) ==
    IF \E c \in config_files : Exists(Join(current_dir, c))
    THEN [done |-> TRUE, result |-> Found(current_dir),
          current_dir |-> current_dir, iterations |-> iterations]
    ELSE IF HasParent(current_dir)
    THEN [done |-> FALSE, result |-> NotFound,
          current_dir |-> Parent(current_dir), iterations |-> iterations + 1]
    ELSE [done |-> TRUE, result |-> Found(start_dir),
          current_dir |-> current_dir, iterations |-> iterations + 1]

\* find_project_root, one turn of its loop on (current_dir, iterations): the
\* configuration files are looked for in current_dir, the counter is
\* incremented and compared, and the walk moves to the parent.
LoopTurn(config_files, start_dir, current_dir, iterations) ==
    IF \E c \in config_files : Exists(Join(current_dir, c))
    THEN [done |-> TRUE, result |-> Found(current_dir),
          current_dir |-> current_dir, iterations |-> iterations]
    ELSE IF iterations + 1 >= max_iterations
    THEN [done |-> TRUE, result |-> Found(start_dir),
          current_dir |-> current_dir, iterations |-> iterations + 1]
    ELSE IF HasParent(current_dir)
    THEN [done |-> FALSE, result |-> NotFound,
          current_dir |-> Parent(current_dir), iterations |-> iterations + 1]
    ELSE [done |-> TRUE, result |-> Found(start_dir),
          current_dir |-> current_dir, iterations |-> iterations + 1]

\* find_project_root, the loop: up the tree from start_dir, at most
\* max_iterations directories; without a hit the start directory is the root.
RECURSIVE WalkUp(_, _, _, _)
WalkUp(config_files, start_dir, current_dir, iterations) ==
    IF \E c \in config_files : Exists(Join(current_dir, c))
    THEN Found(current_dir)
    ELSE IF iterations + 1 >= max_iterations THEN Found(start_dir)
    ELSE IF HasParent(current_dir)
    THEN WalkUp(config_files, start_dir, Parent(current_dir), iterations + 1)
    ELSE Found(start_dir)

\* find_project_root, before the loop: the checks of the path and the
\* directory the walk starts in.
StartDir(file_path) ==
    IF ~Exists(file_path) THEN NotFound
    ELSE IF ~IsDir(file_path) /\ ~HasParent(file_path) THEN NoParentDir
    ELSE Found(IF IsDir(file_path) THEN file_path ELSE Parent(file_path))

\* Mutant of find_project_root: the path is not checked for existence.
find_project_root_unchecked(language, file_path) ==
    LET start_dir == IF IsDir(file_path) \/ ~HasParent(file_path)
                     THEN file_path ELSE Parent(file_path)
    IN WalkUp(ConfigFiles(language), start_dir, start_dir, 0)

find_project_root(language, file_path) ==
    IF ~Exists(file_path) THEN NotFound
    ELSE IF ~IsDir(file_path) /\ ~HasParent(file_path) THEN NoParentDir
    ELSE LET start_dir == IF IsDir(file_path) THEN file_path ELSE Parent(file_path)
         IN WalkUp(ConfigFiles(language), start_dir, start_dir, 0)

\* is_project_root
is_project_root(language, dir_path) ==
    IF ~Exists(dir_path) \/ ~IsDir(dir_path) THEN FALSE
    ELSE \E c \in ConfigFiles(language) : Exists(Join(dir_path, c))

\* detect_language_from_file_extension, the match on the extension of a file
LanguageOfExtension(extension) ==
    CASE extension = "rs" -> "rust"
      [] extension = "py" -> "python"
      [] extension = "js" -> "javascript"
      [] extension = "ts" -> "typescript"
      [] extension = "json" -> "json"
      [] extension = "toml" -> "toml"
      [] OTHER -> "none"

\* detect_language_from_file_extension, the scan of a directory's entries
SourceLanguage(name) ==
    IF Extension(name) \in {"rs", "py", "js", "ts"}
    THEN LanguageOfExtension(Extension(name)) ELSE "none"

\* Mutant of detect_language_from_file_extension: package.json is looked for
\* before Cargo.toml.
detect_language_package_json_first(file_path) ==
    IF IsDir(file_path)
    THEN IF Exists(Join(file_path, "package.json"))
         THEN IF Exists(Join(file_path, "tsconfig.json"))
              THEN {"typescript"} ELSE {"javascript"}
         ELSE IF Exists(Join(file_path, "Cargo.toml")) THEN {"rust"}
         ELSE IF Exists(Join(file_path, "pyproject.toml"))
                 \/ Exists(Join(file_path, "requirements.txt"))
         THEN {"python"}
         ELSE LET hits == {SourceLanguage(e[Len(e)]) : e \in Entries(file_path)} \ {"none"}
              IN IF hits = {} THEN {"none"} ELSE hits
    ELSE {LanguageOfExtension(IF file_path = <<>> THEN ""
                              ELSE Extension(file_path[Len(file_path)]))}

\* detect_language_from_file_extension: the languages it may return ("none"
\* for None). The scan of a directory stops at the first source file in the
\* order read_dir yields, which is any order.
detect_language_from_file_extension(file_path) ==
    IF IsDir(file_path)
    THEN IF Exists(Join(file_path, "Cargo.toml")) THEN {"rust"}
         ELSE IF Exists(Join(file_path, "package.json"))
         THEN IF Exists(Join(file_path, "tsconfig.json"))
              THEN {"typescript"} ELSE {"javascript"}
         ELSE IF Exists(Join(file_path, "pyproject.toml"))
                 \/ Exists(Join(file_path, "requirements.txt"))
         THEN {"python"}
         ELSE LET hits == {SourceLanguage(e[Len(e)]) : e \in Entries(file_path)} \ {"none"}
              IN IF hits = {} THEN {"none"} ELSE hits
    ELSE {LanguageOfExtension(IF file_path = <<>> THEN ""
                              ELSE Extension(file_path[Len(file_path)]))}

(* ------------------------- frames and replies ------------------------- *)
\* A valid JSON-RPC 2.0 frame from the client. id 0: the frame has no id.
\* params: "ok" (of the type the method takes), "unparsable" (an object of
\* another shape), "none" (absent). shape: "ok" for such a frame.
InFrame(method, id, language, path, uri, text, params) ==
    [method |-> method, id |-> id, language |-> language, path |-> path,
     uri |-> uri, text |-> text, params |-> params, shape |-> "ok"]

\* A frame that is not a JSON-RPC 2.0 request or notification. shape:
\* "not_json" (the text does not parse as JSON), "not_object" (JSON, but not
\* an object), "no_jsonrpc" (no jsonrpc member), "bad_version" (jsonrpc is
\* not "2.0"), "no_method" (no method member).
BadFrame(shape, method, id) ==
    [InFrame(method, id, "rust", <<"proj">>, "", "", "ok") EXCEPT !.shape = shape]

BadFrames ==
    {BadFrame("not_json", "", 0),
     BadFrame("not_object", "", 0),
     BadFrame("no_jsonrpc", "initialize", 1),
     BadFrame("bad_version", "initialize", 1),
     BadFrame("no_method", "", 1),
     BadFrame("no_method", "", 0)}

NoFrame == InFrame("", 0, "", <<>>, "", "", "none")

RootPaths == {<<"proj">>, <<"proj", "src", "main.rs">>, <<"web">>, <<"missing">>}

InitializeFrames ==
    {InFrame("initialize", 1, l, p, "", "", "ok") :
        l \in {"rust", "unknown"}, p \in RootPaths}
    \cup {InFrame("initialize", 1, "rust", <<"proj">>, "", "", "unparsable"),
          InFrame("initialize", 1, "", <<>>, "", "", "none"),
          InFrame("initialize", 0, "rust", <<"proj">>, "", "", "ok"),
          InFrame("initialize", 1, "cobol", <<"proj">>, "", "", "ok")}

DidOpenFrames ==
    {InFrame("textDocument/didOpen", 0, l, <<>>, u, "t1", "ok") :
        l \in {"rust", "plaintext"}, u \in URIs}

OtherFrames ==
    {InFrame("initialized", 0, "", <<>>, "", "", "ok"),
     InFrame("textDocument/didChange", 0, "", <<>>, "u1", "t2", "ok"),
     InFrame("textDocument/didClose", 0, "", <<>>, "u1", "", "ok"),
     InFrame("textDocument/definition", 1, "", <<>>, "u1", "", "ok"),
     InFrame("textDocument/hover", 1, "", <<>>, "u1", "", "ok"),
     InFrame("textDocument/completion", 1, "", <<>>, "u1", "", "ok")}

InFrames == InitializeFrames \cup DidOpenFrames \cup OtherFrames \cup BadFrames

\* Initialize requests that leave the language to be detected ("unknown", or
\* an empty string), or declare it, for each directory and for a file.
DetectPaths ==
    {<<d>> : d \in DOMAIN MixedDirs}
    \cup {<<"proj">>, <<"proj", "src">>, <<"web">>, <<"proj", "src", "main.rs">>, <<>>}

DetectFrames ==
    {InFrame("initialize", 1, l, p, "", "", "ok") :
        l \in {"unknown", "", "rust"}, p \in DetectPaths}

\* What the child does with a request it has read: a result of the expected
\* type, a result of another type, a null result, an error, or nothing.
ChildOutcomes == {"result", "unparsable", "null", "error", "silent"}

\* Message::text(""): nothing is sent to the client.
\* languages: the language names an error message lists as supported.
NoReply == [kind |-> "empty", id |-> 0, code |-> 0, body |-> "", languages |-> {}]

Result(id, body) ==
    [kind |-> "result", id |-> id, code |-> 0, body |-> body, languages |-> {}]

Error(id, code) ==
    [kind |-> "error", id |-> id, code |-> code, body |-> "", languages |-> {}]

\* "Język '...' nie jest obsługiwany. Aktualnie obsługiwane języki to: ..."
UnsupportedLanguage(id) ==
    [Error(id, -32601) EXCEPT !.languages = get_supported_languages]

\* A handler that returned: the state it left and its reply.
Handled(g, reply) == [g |-> g, reply |-> reply, fate |-> "returned", asked |-> "none"]

\* The result of a handler that called send_request once.
Asked(r, reply) ==
    [g |-> r.g,
     reply |-> IF r.res = "silent" THEN NoReply ELSE reply,
     fate |-> IF r.res = "silent" THEN "blocked" ELSE "returned",
     asked |-> r.asked]

(* ------------------- RustLspAdapter and ServerFactory ------------------ *)
\* RustLanguageServer::send_request, the reader task being its only caller:
\* the request is written with the id of a clone of the stored connection
\* and the caller waits for the child. "failed" is Err (no connection, failed
\* write, error response, response without result: a null result is read as
\* none), "silent" is a wait that does not end.
send_request(g, s, method, outcome) ==
    LET conn == CloneConnection(g.adapters[s].lsp_connection)
        sent == IF conn.some THEN g.children[conn.child].alive ELSE FALSE
    IN IF sent
       THEN [g |-> WriteFrame(g, conn.child, Frame(method, conn.next_id, s)),
             res |-> IF outcome \in {"null", "error"} THEN "failed" ELSE outcome,
             asked |-> outcome]
       ELSE [g |-> g, res |-> "failed", asked |-> "none"]

\* Mutant of request_handler: a response without a result is handed to the
\* caller as an error.
request_handler_null_is_error(g, s, method, outcome) ==
    LET r == send_request(g, s, method, outcome)
    IN [g |-> r.g, asked |-> r.asked,
        returned |-> CASE r.res = "silent" -> "pending"
                       [] r.res = "result" -> "Ok(Some)"
                       [] r.res = "failed" -> "Err"
                       [] OTHER -> "Ok(None)"]

\* LanguageServer::completion, hover, goto_definition, references and
\* formatting of RustLanguageServer, which differ in the method and in the
\* type the result is parsed as: Ok(Some(..)) for a result of that type,
\* Ok(None) when send_request fails or the result does not parse.
request_handler(g, s, method, outcome) ==
    LET r == send_request(g, s, method, outcome)
    IN [g |-> r.g, asked |-> r.asked,
        returned |-> CASE r.res = "silent" -> "pending"
                       [] r.res = "result" -> "Ok(Some)"
                       [] OTHER -> "Ok(None)"]

\* LanguageServer::initialize of RustLanguageServer
initialize(g, s, id, env) ==
    IF ~env.spawn_ok THEN Handled(g, Error(id, -32603))
    ELSE LET r == send_request(BaseInitialize(g, s), s, "initialize", env.outcome)
         IN Asked(r, CASE r.res = "result" -> Result(id, "child")
                       [] r.res = "unparsable" -> Result(id, "default_capabilities")
                       [] OTHER -> Error(id, -32603))

\* LanguageServer::hover: Ok(None) for every failure
hover(g, s, id, env) ==
    LET r == send_request(g, s, "textDocument/hover", env.outcome)
    IN Asked(r, IF r.res = "result" THEN Result(id, "child") ELSE Result(id, "null"))

\* LanguageServer::completion: Ok(None) for every failure, answered as an empty list
completion(g, s, id, env) ==
    LET r == send_request(g, s, "textDocument/completion", env.outcome)
    IN Asked(r, IF r.res = "result" THEN Result(id, "child")
                ELSE Result(id, "empty_list"))

\* RustLspAdapter::handle_request. The completion arm builds a second tokio
\* Runtime and calls block_on on it from the reader task, which runs inside
\* the runtime: the call panics (env.runtime = "panic") or, on a build whose
\* runtime allows it, runs the request.
handle_request(g, s, f, env) ==
    CASE f.method = "initialize" ->
            IF f.params = "ok" THEN initialize(g, s, f.id, env)
            ELSE Handled(g, Error(f.id, -32602))
      [] f.method = "initialized" ->
            Handled(SendNotification(g, s, "initialized"), NoReply)
      [] f.method = "textDocument/didOpen" ->
            Handled(IF f.params = "ok" THEN did_open(g, s, f.uri, f.text) ELSE g,
                    NoReply)
      [] f.method = "textDocument/completion" ->
            IF f.params # "ok" THEN Handled(g, Error(f.id, -32602))
            ELSE IF env.runtime = "panic"
            THEN [g |-> g, reply |-> NoReply, fate |-> "panicked", asked |-> "none"]
            ELSE completion(g, s, f.id, env)
      [] f.method = "textDocument/hover" ->
            IF f.params = "ok" THEN hover(g, s, f.id, env)
            ELSE Handled(g, Error(f.id, -32602))
      [] OTHER -> Handled(g, Result(f.id, "{}"))

\* ServerFactory::create_server: the id is taken before anything can fail.
create_server(g, language, file_path) ==
    LET server_id == g.next_id
        g1 == [g EXCEPT !.next_id = @ + 1]
        root_path == find_project_root(language, file_path)
    IN IF ~root_path.ok
       THEN [g |-> g1, ok |-> FALSE, id |-> 0, err |-> root_path.err]
       ELSE IF language = "rust"
       THEN [g |-> [g1 EXCEPT !.adapters = Put(@, server_id,
                                               NewRustLspAdapter(language, root_path.val)),
                              !.servers = @ \cup {server_id}],
             ok |-> TRUE, id |-> server_id, err |-> "none"]
       ELSE [g |-> g1, ok |-> FALSE, id |-> 0,
             err |-> IF language \in {"typescript", "javascript", "python"}
                     THEN "not_implemented" ELSE "unsupported"]

\* Mutant of stop_server: the server leaves the registry without a shutdown.
stop_server_no_shutdown(g, server_id) ==
    IF server_id \in g.servers
    THEN [g EXCEPT !.servers = @ \ {server_id}]
    ELSE g

\* ServerFactory::stop_server, with RustLspAdapter::shutdown
stop_server(g, server_id) ==
    IF server_id \in g.servers
    THEN BaseShutdown([g EXCEPT !.servers = @ \ {server_id}], server_id)
    ELSE g

\* ServerFactory::forward_request
forward_request(g, server_id, f, env) ==
    IF server_id \in g.servers
    THEN handle_request(g, server_id, f, env)
    ELSE [g |-> g, reply |-> NoReply, fate |-> "failed", asked |-> "none"]

(* ---------------------------- WebSocketManager ------------------------ *)
\* handle_message, method "initialize": the declared language, or the
\* detected one when none is declared.
FinalLanguage(f, detected) ==
    IF f.language \in {"unknown", ""} /\ detected # "none"
    THEN detected ELSE f.language

\* Mutant of handle_initialize: the language is not checked against the
\* supported ones.
handle_initialize_unchecked(g, f, env) ==
    LET final_language == FinalLanguage(f, env.detected)
        root == find_project_root(final_language, f.path)
        server_path == IF root.ok /\ IsDir(f.path) THEN root.val ELSE f.path
        c == create_server(g, final_language, server_path)
        h == forward_request([c.g EXCEPT !.active_server = c.id], c.id, f, env)
    IN IF f.params = "none" THEN Handled(g, Error(f.id, -32602))
       ELSE IF ~c.ok THEN Handled(c.g, Error(f.id, -32603))
       ELSE IF h.fate = "failed" THEN Handled(h.g, Error(f.id, -32603))
       ELSE h

\* handle_message, method "initialize" with an id
handle_initialize(g, f, env) ==
    LET final_language == FinalLanguage(f, env.detected)
        root == find_project_root(final_language, f.path)
        server_path == IF root.ok /\ IsDir(f.path) THEN root.val ELSE f.path
        c == create_server(g, final_language, server_path)
        h == forward_request([c.g EXCEPT !.active_server = c.id], c.id, f, env)
    IN IF f.params = "none" THEN Handled(g, Error(f.id, -32602))
       ELSE IF final_language \notin get_supported_languages
       THEN Handled(g, UnsupportedLanguage(f.id))
       ELSE IF ~c.ok THEN Handled(c.g, Error(f.id, -32603))
       ELSE IF h.fate = "failed" THEN Handled(h.g, Error(f.id, -32603))
       ELSE h

\* A forwarded notification: whatever the adapter answers, nothing is replied.
Forwarded(h) ==
    [h EXCEPT !.reply = NoReply,
              !.fate = IF h.fate = "failed" THEN "returned" ELSE h.fate]

\* handle_message, method "initialized"
handle_initialized(g, f, env) ==
    IF g.active_server # 0
    THEN Forwarded(forward_request(g, g.active_server, f, env))
    ELSE Handled(g, NoReply)

\* handle_message, method "textDocument/didOpen"
handle_did_open(g, f, env) ==
    LET c == create_server(g, env.detected, UriPath(f.uri))
    IN IF f.language \in {"generic", "plaintext", ""} /\ env.detected # "none"
       THEN IF env.detected \notin get_supported_languages
            THEN Handled(g, NoReply)
            ELSE IF g.active_server # 0
            THEN Forwarded(forward_request(g, g.active_server, f, env))
            ELSE IF c.ok
            THEN Forwarded(forward_request([c.g EXCEPT !.active_server = c.id],
                                           c.id, f, env))
            ELSE Handled(c.g, NoReply)
       ELSE IF g.active_server # 0
       THEN Forwarded(forward_request(g, g.active_server, f, env))
       ELSE Handled(g, NoReply)

\* handle_message, every other method (and "initialize" without an id)
handle_other(g, f, env) ==
    LET h == forward_request(g, g.active_server, f, env)
    IN IF g.active_server # 0
       THEN IF h.fate = "failed"
            THEN Handled(h.g, IF f.id # 0 THEN Error(f.id, -32603) ELSE NoReply)
            ELSE h
       ELSE Handled(g, IF f.id # 0 THEN Error(f.id, -32603) ELSE NoReply)

\* Mutant of handle_invalid: a text that is not JSON is answered as an
\* invalid request.
handle_invalid_as_request(g, f) ==
    IF f.shape \in {"not_json", "not_object"} THEN Handled(g, Error(0, -32600))
    ELSE Handled(g, Error(f.id, -32600))

\* handle_message on a frame that is not a JSON-RPC 2.0 request or
\* notification: a parse error with id null, or an invalid request with the
\* id of the frame (null when it has none; a JSON value that is not an
\* object has no id member).
handle_invalid(g, f) ==
    CASE f.shape = "not_json" -> Handled(g, Error(0, -32700))
      [] f.shape = "not_object" -> Handled(g, Error(0, -32600))
      [] OTHER -> Handled(g, Error(f.id, -32600))

\* WebSocketManager::handle_message
handle_message(g, f, env) ==
    IF f.shape # "ok" THEN handle_invalid(g, f)
    ELSE CASE f.method = "initialize" /\ f.id # 0 -> handle_initialize(g, f, env)
           [] f.method = "initialized" -> handle_initialized(g, f, env)
           [] f.method = "textDocument/didOpen" -> handle_did_open(g, f, env)
           [] OTHER -> handle_other(g, f, env)

\* The path detect_language_from_file_extension is called on for a frame.
DetectPath(f) ==
    IF f.method = "textDocument/didOpen" THEN UriPath(f.uri) ELSE f.path

\* handle_connection, after the reader's loop: the active server is stopped.
stop_active(g) ==
    IF g.active_server # 0
    THEN [stop_server(g, g.active_server) EXCEPT !.active_server = 0]
    ELSE g

NotClosed == [cause |-> "none", session |-> 0, process |-> 0, was_alive |-> FALSE]

\* How the reader task leaves its loop on state g.
Closing(g, cause) ==
    LET s == g.active_server
        k == IF s # 0 THEN g.adapters[s].process ELSE 0
    IN [cause |-> cause, session |-> s, process |-> k,
        was_alive |-> IF k # 0 THEN g.children[k].alive ELSE FALSE]

NoLast == [frame |-> NoFrame, after |-> "none", detected |-> "none",
           session |-> 0, child |-> 0,
           child_alive |-> FALSE, stdin_before |-> 0, reply |-> NoReply, fate |-> "none", asked |-> "none"]

\* ServerFactory::new
NewFactory == [servers |-> {}, next_id |-> 1, adapters |-> EmptyMap, children |-> <<>>]

\* Mutant of CloneFactory: the clone is the factory it was made from.
CloneFactory_shared(fs, i) == [fs |-> fs, id |-> i]

\* impl Clone for ServerFactory: Self::new(), a factory of its own.
CloneFactory(fs, i) == [fs |-> Append(fs, NewFactory), id |-> Len(fs) + 1]

Connections == {"A", "B"}

\* A connection nobody has opened yet. state: "none", "open", "blocked",
\* "panicked", "closed" (of its reader task).
NoPeer == [state |-> "none", factory |-> 0, active_server |-> 0, handled |-> 0,
           replies |-> <<>>]

GatewayInit ==
    /\ factories = <<NewFactory>>
    /\ peers = [c \in Connections |-> NoPeer]
    /\ shadow = [peer |-> NoPeer, factory |-> NewFactory]
    /\ ws_rx = <<>>
    /\ in_hand = {}
    /\ tx = <<>>
    /\ arrived = 0
    /\ backward_task = "reading"
    /\ forward_task = "running"
    /\ active_server = 0
    /\ servers = {}
    /\ next_id = 1
    /\ handled = 0
    /\ last = NoLast
    /\ closed = NotClosed

\* No stdio-mode server, no call of an entry point yet.
NoStart == [pc |-> "idle", language |-> "", file_path |-> <<>>, result |-> "none"]

NoEntry == [n |-> 0, op |-> "none", language |-> "", file_path |-> <<>>,
            ok |-> FALSE, err |-> "none"]

NoWalk == [pc |-> "none", language |-> "", file_path |-> <<>>,
           start_dir |-> <<>>, current_dir |-> <<>>, iterations |-> 0,
           examined |-> <<>>, result |-> NotFound]

\* start_lsp_websocket_server tries the port asked for and the ones after it.
max_attempts == 5

Ports == 0..(max_attempts - 1)

\* Who holds a port: nobody, another process, or thread i > 0 of this one.
Free == 0
Foreign == -1

NoOp == [n |-> 0, op |-> "none", was_running |-> FALSE, result |-> "none"]

HostInit ==
    /\ ACTIVE_SERVERS = {}
    /\ stdio_calls = [c \in Callers |-> NoStart]
    /\ server_threads = <<>>
    /\ entry = NoEntry
    /\ walk = NoWalk
    /\ WS_SERVER_RUNNING = FALSE
    /\ WS_MANAGER = 0
    /\ managers = <<>>
    /\ ws_calls = [c \in Callers |-> [pc |-> "idle", result |-> "none"]]
    /\ ws_threads = <<>>
    /\ ports = [p \in Ports |-> Free]
    /\ connections = <<>>
    /\ last_op = NoOp

World == [adapters |-> adapters, children |-> children]

(* ------------------------ SpecLink and SpecDocs ----------------------- *)
\* A caller that is not inside send_request or send_notification.
NotWriting == [pc |-> "idle", kind |-> "", frame |-> 0, left |-> <<>>]

Idle == [pc |-> "idle", method |-> "", id |-> 0, rx |-> "none",
         rx_for |-> 0, result |-> "none"]

NoCall == [op |-> "none", uri |-> "", text |-> "", changes |-> <<>>]

NoShutdown == [n |-> 0, result |-> "none"]

\* No document handler has been called statement by statement.
NoStep == [op |-> "none", uri |-> "", changes |-> <<>>, done |-> 0,
           sent |-> "no", store_at_send |-> EmptyMap, states_at_send |-> EmptyMap]

NoRequest == [method |-> "", asked |-> "none", returned |-> "none"]

InitAdapter ==
    /\ adapters = <<NewAdapter>>
    /\ children = <<>>
    /\ response_handlers = EmptyMap
    /\ callers = [c \in Callers |-> Idle]
    /\ child_stdout = <<>>
    /\ reader = "none"
    /\ answered = {}
    /\ notification_rx = <<>>
    /\ notifs_emitted = 0
    /\ notifs_read = 0
    /\ wire = <<>>
    /\ content_length = 0
    /\ stdin_lock = 0
    /\ writers = [c \in Callers |-> NotWriting]
    /\ pipe = <<>>
    /\ last_call = NoCall
    /\ opened = {}
    /\ written = {}
    /\ shutdown_calls = NoShutdown
    /\ last_request = NoRequest
    /\ doc_step = NoStep
    /\ GatewayInit
    /\ HostInit

\* The frames the client side may still cause: the bound of the model.
StdinRoom ==
    IF children = <<>> THEN TRUE ELSE Len(children[1].stdin) < MaxStdin

\* LspProcessConnection::send_request up to rx.await, on world w: the id is
\* taken from the caller's own clone of the connection, the handler is
\* registered under it (a handler already there is dropped, which closes its
\* receiver), and the frame is written; a failed write returns the error and
\* leaves the handler in the table.
SendRequest(w, c, m) ==
    LET conn == CloneConnection(w.adapters[1].lsp_connection)
        id == conn.next_id
        displaced == IF id \in DOMAIN response_handlers
                     THEN response_handlers[id] ELSE 0
        written_ok == w.children[conn.child].alive
    IN /\ response_handlers' = Put(response_handlers, id, c)
       /\ children' = WriteFrame(w, conn.child, Frame(m, id, c)).children
       /\ callers' = [x \in Callers |->
                        IF x = c
                        THEN [pc |-> IF written_ok THEN "waiting" ELSE "done",
                              method |-> m, id |-> id,
                              rx |-> "pending", rx_for |-> 0,
                              result |-> IF written_ok THEN "none" ELSE "write_failed"]
                        ELSE IF x = displaced
                        THEN [callers[x] EXCEPT !.rx = "closed"]
                        ELSE callers[x]]

\* LanguageServer::initialize: BaseLanguageServer::initialize, then
\* send_request("initialize", params). The LSP service calls it once.
CallInitialize(c, spawn_ok) ==
    /\ callers[c].pc = "idle"
    /\ children = <<>>
    /\ adapters[1].process = 0
    /\ IF spawn_ok
       THEN /\ adapters' = BaseInitialize(World, 1).adapters
            /\ reader' = "running"
            /\ SendRequest(BaseInitialize(World, 1), c, "initialize")
       ELSE /\ callers' = [callers EXCEPT ![c].pc = "done",
                                          ![c].method = "initialize",
                                          ![c].result = "spawn_failed"]
            /\ UNCHANGED <<adapters, children, reader, response_handlers>>
    /\ UNCHANGED <<child_stdout, answered, notification_rx,
                   notifs_emitted, notifs_read, framevars, writevars,
                   docvars, gatewayvars, hostvars>>

\* hover, goto_definition, ...: RustLanguageServer::send_request.
CallRequest(c, m) ==
    /\ callers[c].pc = "idle"
    /\ StdinRoom
    /\ IF adapters[1].lsp_connection.some
       THEN SendRequest(World, c, m)
       ELSE /\ callers' = [callers EXCEPT ![c].pc = "done", ![c].method = m,
                                          ![c].result = "no_connection"]
            /\ UNCHANGED <<response_handlers, children>>
    /\ UNCHANGED <<adapters, child_stdout, reader, answered,
                   notification_rx, notifs_emitted, notifs_read, framevars, writevars,
                   docvars, gatewayvars, hostvars>>

\* send_request: rx.await completes with the response or with the sender dropped.
Await(c) ==
    /\ callers[c].pc = "waiting"
    /\ callers[c].rx \in {"ok", "closed"}
    /\ callers' = [callers EXCEPT ![c].pc = "done",
                                  ![c].result = IF callers[c].rx = "ok"
                                                THEN "response" ELSE "failed"]
    /\ UNCHANGED <<adapters, children, response_handlers, child_stdout, reader,
                   answered, notification_rx, notifs_emitted, notifs_read, framevars, writevars,
                   docvars, gatewayvars, hostvars>>

\* The caller's future has returned; the caller may call again.
Return(c) ==
    /\ callers[c].pc = "done"
    /\ callers' = [callers EXCEPT ![c] = Idle]
    /\ UNCHANGED <<adapters, children, response_handlers, child_stdout, reader,
                   answered, notification_rx, notifs_emitted, notifs_read, framevars, writevars,
                   docvars, gatewayvars, hostvars>>

\* The child answers one of the requests it has read, in any order.
ChildRespond(i) ==
    /\ children # <<>>
    /\ children[1].alive
    /\ i \in 1..Len(children[1].stdin)
    /\ children[1].stdin[i].id # 0
    /\ i \notin answered
    /\ answered' = answered \cup {i}
    /\ child_stdout' = Append(child_stdout,
                          [type |-> "response", id |-> children[1].stdin[i].id,
                           for |-> children[1].stdin[i].from, uri |-> ""])
    /\ UNCHANGED <<adapters, children, response_handlers, callers, reader,
                   notification_rx, notifs_emitted, notifs_read, framevars, writevars,
                   docvars, gatewayvars, hostvars>>

\* The child publishes diagnostics: a frame with a method and no id.
ChildNotify(u) ==
    /\ children # <<>>
    /\ children[1].alive
    /\ notifs_emitted < MaxNotifs
    /\ notifs_emitted' = notifs_emitted + 1
    /\ child_stdout' = Append(child_stdout,
                          [type |-> "notification", id |-> 0, for |-> 0, uri |-> u])
    /\ UNCHANGED <<adapters, children, response_handlers, callers, reader,
                   answered, notification_rx, notifs_read, framevars, writevars,
                   docvars, gatewayvars, hostvars>>

\* The child exits on its own: its end of the pipes closes.
ChildExit ==
    /\ children # <<>>
    /\ children[1].alive
    /\ children' = [children EXCEPT ![1].alive = FALSE]
    /\ UNCHANGED <<adapters, linkvars, docvars, gatewayvars, hostvars>>

\* Mutant of ReadResponses: the handler is looked up and left in the table.
ReadResponses_keeps_entry ==
    /\ reader = "running"
    /\ IF child_stdout # <<>>
       THEN LET f == Head(child_stdout)
                hit == f.type = "response" /\ f.id \in DOMAIN response_handlers
            IN /\ child_stdout' = Tail(child_stdout)
               /\ response_handlers' = response_handlers
               /\ callers' = IF hit
                             THEN [callers EXCEPT ![response_handlers[f.id]].rx = "ok",
                                                  ![response_handlers[f.id]].rx_for = f.for]
                             ELSE callers
               /\ notifs_read' = IF f.type = "notification"
                                 THEN notifs_read + 1 ELSE notifs_read
               /\ UNCHANGED reader
       ELSE /\ ~children[1].alive
            /\ reader' = "stopped"
            /\ UNCHANGED <<child_stdout, response_handlers, callers, notifs_read>>
    /\ UNCHANGED <<adapters, children, answered, notification_rx, notifs_emitted,
                   framevars, writevars,
                   docvars, gatewayvars, hostvars>>

\* read_responses, one turn of its loop: a frame or end-of-stream.
\* A frame is parsed as a JsonRpcResponse, whose id is required: a frame
\* without id fails to parse and is logged; nothing is sent to a channel.
ReadResponses ==
    /\ reader = "running"
    /\ IF child_stdout # <<>>
       THEN LET f == Head(child_stdout)
                hit == f.type = "response" /\ f.id \in DOMAIN response_handlers
            IN /\ child_stdout' = Tail(child_stdout)
               /\ response_handlers' = IF hit THEN Remove(response_handlers, f.id)
                                       ELSE response_handlers
               /\ callers' = IF hit
                             THEN [callers EXCEPT ![response_handlers[f.id]].rx = "ok",
                                                  ![response_handlers[f.id]].rx_for = f.for]
                             ELSE callers
               /\ notifs_read' = IF f.type = "notification"
                                 THEN notifs_read + 1 ELSE notifs_read
               /\ UNCHANGED reader
       ELSE /\ ~children[1].alive
            /\ reader' = "stopped"
            /\ UNCHANGED <<child_stdout, response_handlers, callers, notifs_read>>
    /\ UNCHANGED <<adapters, children, answered, notification_rx, notifs_emitted,
                   framevars, writevars,
                   docvars, gatewayvars, hostvars>>

\* LanguageServer::shutdown, on an adapter in any state: an error of
\* BaseLanguageServer::shutdown is logged and Ok(()) is returned.
Shutdown ==
    /\ shutdown_calls.n < MaxShutdowns
    /\ adapters' = BaseShutdown(World, 1).adapters
    /\ children' = BaseShutdown(World, 1).children
    /\ shutdown_calls' = [n |-> shutdown_calls.n + 1, result |-> "ok"]
    /\ UNCHANGED <<linkvars, last_call, opened, written, last_request, doc_step,
                   gatewayvars, hostvars>>

DidOpen(u, t) ==
    /\ StdinRoom
    /\ adapters' = did_open(World, 1, u, t).adapters
    /\ children' = did_open(World, 1, u, t).children
    /\ last_call' = [op |-> "didOpen", uri |-> u, text |-> t, changes |-> <<>>]
    /\ opened' = opened \cup {u}
    /\ written' = written \cup {u}
    /\ UNCHANGED <<shutdown_calls, last_request, doc_step, linkvars, gatewayvars, hostvars>>

DidChange(u, ch) ==
    /\ StdinRoom
    /\ adapters' = did_change(World, 1, u, ch).adapters
    /\ children' = did_change(World, 1, u, ch).children
    /\ last_call' = [op |-> "didChange", uri |-> u, text |-> "", changes |-> ch]
    /\ written' = IF ch # <<>> THEN written \cup {u} ELSE written
    /\ UNCHANGED <<opened, shutdown_calls, last_request, doc_step>>
    /\ UNCHANGED <<linkvars, gatewayvars, hostvars>>

DidClose(u) ==
    /\ StdinRoom
    /\ adapters' = did_close(World, 1, u).adapters
    /\ children' = did_close(World, 1, u).children
    /\ last_call' = [op |-> "didClose", uri |-> u, text |-> "", changes |-> <<>>]
    /\ opened' = opened \ {u}
    /\ written' = written \ {u}
    /\ UNCHANGED <<shutdown_calls, last_request, doc_step, linkvars, gatewayvars, hostvars>>

\* LanguageServer::shutdown while the adapter holds its link (without one
\* the call leaves the link's state alone).
ShutdownLink ==
    /\ adapters[1].process # 0
    /\ Shutdown

\* The link: concurrent callers, the child, the read_responses thread.
NextLink ==
    \/ \E c \in Callers, ok \in BOOLEAN : CallInitialize(c, ok)
    \/ \E c \in Callers, m \in RequestMethods : CallRequest(c, m)
    \/ \E c \in Callers : Await(c)
    \/ \E c \in Callers : Return(c)
    \/ \E i \in 1..(MaxStdin + 2) : ChildRespond(i)
    \/ \E u \in DiagnosticURIs : ChildNotify(u)
    \/ ChildExit
    \/ ReadResponses
    \/ ShutdownLink

SpecLink == InitAdapter /\ [][NextLink]_vars

\* BaseLanguageServer::initialize called on its own (the document handlers
\* do not wait for the initialize request).
Spawn ==
    /\ children = <<>>
    /\ adapters' = BaseInitialize(World, 1).adapters
    /\ children' = BaseInitialize(World, 1).children
    /\ UNCHANGED <<linkvars, docvars, gatewayvars, hostvars>>

\* The document handlers of one adapter.
NextDocs ==
    \/ Spawn
    \/ ChildExit
    \/ Shutdown
    \/ \E u \in URIs, t \in Texts : DidOpen(u, t)
    \/ \E u \in URIs, ch \in ChangeLists : DidChange(u, ch)
    \/ \E u \in URIs : DidClose(u)

SpecDocs == InitAdapter /\ [][NextDocs]_vars

\* Scheduling: the read_responses thread runs while it can, and a caller
\* whose receiver has completed is resumed by the runtime.
FairSpecLink ==
    /\ SpecLink
    /\ WF_vars(ReadResponses)
    /\ \A c \in Callers : WF_vars(Await(c))

(* --------------------------------- Spec -------------------------------- *)
Gateway ==
    [active_server |-> active_server, servers |-> servers, next_id |-> next_id,
     adapters |-> adapters, children |-> children]

\* What the environment decides is enumerated only for the frames whose
\* handling looks at it: whether rust-analyzer can be spawned for an
\* initialize, what the child does with a request, whether the completion
\* handler finds itself inside the runtime.
SpawnOutcomes(f) ==
    IF f.shape = "ok" /\ f.method = "initialize" THEN BOOLEAN ELSE {TRUE}

ChildOutcomesFor(f) ==
    IF f.shape = "ok" /\ (f.id # 0 \/ f.method = "initialize")
    THEN ChildOutcomes ELSE {"result"}

Runtimes(f) ==
    IF f.shape = "ok" /\ f.method = "textDocument/completion"
    THEN {"panic", "runs"} ELSE {"runs"}

\* The reader task takes a text frame from the socket: handle_message, then
\* the reply, unless empty, goes to the channel of the forward task; if that
\* task has ended the send fails and the reader leaves its loop.
Receive(f, spawn_ok, outcome, runtime, detected) ==
    /\ backward_task = "reading"
    /\ handled < MaxFrames
    /\ detected \in detect_language_from_file_extension(DetectPath(f))
    /\ \E h \in {handle_message(Gateway, f,
                                 [spawn_ok |-> spawn_ok, outcome |-> outcome,
                                  runtime |-> runtime, detected |-> detected])} :
       LET send_failed == /\ h.fate = "returned"
                          /\ h.reply.kind # "empty"
                          /\ forward_task = "ended"
           g == IF send_failed THEN stop_active(h.g) ELSE h.g
           k == IF active_server # 0 THEN adapters[active_server].process ELSE 0
       IN /\ adapters' = g.adapters
          /\ children' = g.children
          /\ active_server' = g.active_server
          /\ servers' = g.servers
          /\ next_id' = g.next_id
          /\ backward_task' = CASE h.fate = "blocked" -> "blocked"
                                [] h.fate = "panicked" -> "panicked"
                                [] send_failed -> "done"
                                [] OTHER -> "reading"
          /\ closed' = IF send_failed THEN Closing(h.g, "send_error") ELSE closed
          /\ last' = [frame |-> f, after |-> last.frame.shape, detected |-> detected,
                      session |-> active_server, child |-> k,
                      child_alive |-> IF k # 0 THEN children[k].alive ELSE FALSE,
                      stdin_before |-> IF k # 0 THEN Len(children[k].stdin) ELSE 0,
                      reply |-> h.reply, fate |-> h.fate, asked |-> h.asked]
    /\ handled' = handled + 1
    /\ UNCHANGED <<forward_task, isovars, ordervars, linkvars, docvars, hostvars>>

\* The connection ends for the reader task: a close frame, a read error, or
\* the end of the inbound stream. Each path stops the active server.
ConnectionEnds(cause) ==
    /\ backward_task = "reading"
    /\ LET g == stop_active(Gateway)
       IN /\ adapters' = g.adapters
          /\ children' = g.children
          /\ active_server' = g.active_server
          /\ servers' = g.servers
    /\ closed' = Closing(Gateway, cause)
    /\ backward_task' = "done"
    /\ UNCHANGED <<forward_task, next_id, handled, last, isovars, ordervars, linkvars, docvars,
                   hostvars>>

\* The forward task fails to write a queued reply to the socket and ends.
ForwardTaskEnds ==
    /\ forward_task = "running"
    /\ last.reply.kind # "empty"
    /\ forward_task' = "ended"
    /\ UNCHANGED <<adapters, children, backward_task, active_server, servers,
                   next_id, handled, last, closed, isovars, ordervars, linkvars, docvars, hostvars>>

Init ==
    /\ adapters = EmptyMap
    /\ children = <<>>
    /\ response_handlers = EmptyMap
    /\ callers = [c \in Callers |-> Idle]
    /\ child_stdout = <<>>
    /\ reader = "none"
    /\ answered = {}
    /\ notification_rx = <<>>
    /\ notifs_emitted = 0
    /\ notifs_read = 0
    /\ wire = <<>>
    /\ content_length = 0
    /\ stdin_lock = 0
    /\ writers = [c \in Callers |-> NotWriting]
    /\ pipe = <<>>
    /\ last_call = NoCall
    /\ opened = {}
    /\ written = {}
    /\ shutdown_calls = NoShutdown
    /\ last_request = NoRequest
    /\ doc_step = NoStep
    /\ GatewayInit
    /\ HostInit

\* One WebSocket connection.
Next ==
    \/ \E f \in InFrames :
          \E spawn_ok \in SpawnOutcomes(f), outcome \in ChildOutcomesFor(f),
             runtime \in Runtimes(f),
             detected \in detect_language_from_file_extension(DetectPath(f)) :
                Receive(f, spawn_ok, outcome, runtime, detected)
    \/ \E cause \in {"close", "error", "eos"} : ConnectionEnds(cause)
    \/ ForwardTaskEnds
    \/ ChildExit

Spec == Init /\ [][Next]_vars

(* ------------------------------ SpecFraming ---------------------------- *)
\* The child's stdout as read_responses meets it: lines that end with a
\* newline, and bodies, which end with one only if the child adds it.
\* "length": a Content-Length line with a number, "bad_length": one whose
\* value is not a number, "blank": the line that ends the headers.
Line(kind) == [kind |-> kind, content |-> "", id |-> 0, for |-> 0, nl |-> TRUE]

\* content: "response" (a JSON-RPC response with this id), "not_jsonrpc"
\* (text that is no JsonRpcResponse), "not_utf8".
Body(content, id, for, nl) ==
    [kind |-> "body", content |-> content, id |-> id, for |-> for, nl |-> nl]

\* Every body has this many bytes, and a Content-Length line says so.
BodyLength == 1

FrameKinds == {"response", "no_length", "bad_length", "not_utf8", "not_jsonrpc"}

\* The bytes of a frame of each kind, about the request at position i of
\* the child's stdin.
FrameBytes(kind, req, i, nl) ==
    CASE kind = "response" ->
           <<Line("length"), Line("blank"), Body("response", req.id, i, nl)>>
      [] kind = "no_length" ->
           <<Line("blank"), Body("response", req.id, i, nl)>>
      [] kind = "bad_length" ->
           <<Line("bad_length"), Line("blank"), Body("response", req.id, i, nl)>>
      [] kind = "not_utf8" ->
           <<Line("length"), Line("blank"), Body("not_utf8", 0, 0, nl)>>
      [] OTHER ->
           <<Line("length"), Line("blank"), Body("not_jsonrpc", 0, 0, nl)>>

\* The child writes a frame: the response to a request it has not answered,
\* or a malformed frame.
ChildWrites(kind, i, nl) ==
    /\ children # <<>>
    /\ children[1].alive
    /\ i \in 1..Len(children[1].stdin)
    /\ children[1].stdin[i].id # 0
    /\ IF kind = "response"
       THEN /\ i \notin answered
            /\ answered' = answered \cup {i}
            /\ UNCHANGED notifs_emitted
       ELSE /\ notifs_emitted < MaxNotifs
            /\ notifs_emitted' = notifs_emitted + 1
            /\ UNCHANGED answered
    /\ wire' = wire \o FrameBytes(kind, children[1].stdin[i], i, nl)
    /\ UNCHANGED <<adapters, children, response_handlers, callers, child_stdout,
                   reader, notification_rx, notifs_read, content_length,
                   writevars, docvars, gatewayvars, hostvars>>

\* BufReader::read_line on bytes w of a pipe whose writer is alive or not:
\* the bytes up to and with the next newline. Bytes of a body that does not
\* end with a newline run into the line after them. status: "line",
\* "eof" (Ok(0)), "err" (the bytes are not UTF-8), "wait" (no newline yet).
read_line(w, alive) ==
    IF w = <<>>
    THEN [status |-> IF alive THEN "wait" ELSE "eof", kind |-> "", rest |-> w]
    ELSE IF w[1].kind # "body"
    THEN [status |-> "line", kind |-> w[1].kind, rest |-> Tail(w)]
    ELSE LET n == IF w[1].nl THEN 1 ELSE 2
         IN IF Len(w) < n /\ alive
            THEN [status |-> "wait", kind |-> "", rest |-> w]
            ELSE [status |-> IF w[1].content = "not_utf8" THEN "err" ELSE "line",
                  kind |-> "text",
                  rest |-> IF Len(w) < n THEN <<>> ELSE SubSeq(w, n + 1, Len(w))]

\* read_responses, one turn of its loop, line by line: read_line, and for a
\* blank line after a Content-Length the read_exact of the body, its
\* decoding, and the send to the handler registered under its id.
ReadLine ==
    /\ reader = "running"
    /\ \E r \in {read_line(wire, children[1].alive)} :
          /\ r.status # "wait"
          /\ IF r.status \in {"eof", "err"}
             THEN /\ reader' = "stopped"
                  /\ wire' = r.rest
                  /\ UNCHANGED <<content_length, response_handlers, callers>>
             ELSE IF r.kind = "length"
             THEN /\ content_length' = BodyLength
                  /\ wire' = r.rest
                  /\ UNCHANGED <<reader, response_handlers, callers>>
             ELSE IF r.kind # "blank" \/ content_length = 0
             THEN /\ wire' = r.rest
                  /\ UNCHANGED <<reader, content_length, response_handlers, callers>>
             ELSE IF r.rest = <<>>
             THEN /\ ~children[1].alive
                  /\ wire' = r.rest
                  /\ UNCHANGED <<reader, content_length, response_handlers, callers>>
             ELSE LET b == r.rest[1]
                      hit == /\ b.content = "response"
                             /\ b.id \in DOMAIN response_handlers
                  IN /\ wire' = Tail(r.rest)
                     /\ content_length' = 0
                     /\ response_handlers' = IF hit THEN Remove(response_handlers, b.id)
                                             ELSE response_handlers
                     /\ callers' = IF hit
                                   THEN [callers EXCEPT
                                           ![response_handlers[b.id]].rx = "ok",
                                           ![response_handlers[b.id]].rx_for = b.for]
                                   ELSE callers
                     /\ UNCHANGED reader
    /\ UNCHANGED <<adapters, children, child_stdout, answered, notification_rx,
                   notifs_emitted, notifs_read, writevars, docvars, gatewayvars,
                   hostvars>>

\* The link with a child whose frames may be malformed.
NextFraming ==
    \/ \E c \in Callers, ok \in BOOLEAN : CallInitialize(c, ok)
    \/ \E c \in Callers, m \in RequestMethods : CallRequest(c, m)
    \/ \E c \in Callers : Await(c)
    \/ \E c \in Callers : Return(c)
    \/ \E kind \in FrameKinds, i \in 1..MaxStdin, nl \in BOOLEAN : ChildWrites(kind, i, nl)
    \/ ChildExit
    \/ ReadLine

SpecFraming == InitAdapter /\ [][NextFraming]_vars

(* ------------------------------ SpecWrites ----------------------------- *)
\* The buffer send_request and send_notification format for frame n: the
\* Content-Length header with its blank line, then the body.
Message(n) == <<[frame |-> n, part |-> "header"], [frame |-> n, part |-> "body"]>>

\* The number the next frame is told apart by.
NextFrame ==
    LET used == {pipe[i].frame : i \in DOMAIN pipe} \cup {writers[c].frame : c \in Callers}
    IN 1 + Cardinality(used \ {0})

\* Mutant of guard_dropped: the guard on stdin is dropped after every write.
guard_dropped_after_each_write(left) == TRUE

\* `self.stdin.lock().unwrap().write_all(message.as_bytes())`: the guard is a
\* temporary of the statement, dropped when write_all has written the whole
\* buffer (left: the parts of the buffer not yet written).
guard_dropped(left) == left = <<>>

\* send_request or send_notification up to its write: the frame is
\* formatted, and for a request the handler is registered under its id.
StartWrite(c, kind) ==
    /\ writers[c].pc = "idle"
    /\ adapters[1].lsp_connection.some
    /\ NextFrame <= MaxWrites
    /\ writers' = [writers EXCEPT ![c] = [pc |-> "write_all", kind |-> kind,
                                          frame |-> NextFrame,
                                          left |-> Message(NextFrame)]]
    /\ response_handlers' =
          IF kind = "request"
          THEN Put(response_handlers,
                   CloneConnection(adapters[1].lsp_connection).next_id, c)
          ELSE response_handlers
    /\ UNCHANGED <<adapters, children, callers, child_stdout, reader, answered,
                   notification_rx, notifs_emitted, notifs_read, framevars,
                   stdin_lock, pipe, docvars, gatewayvars, hostvars>>

\* self.stdin.lock(): the caller waits until the Mutex is free.
LockStdin(c) ==
    /\ writers[c].pc = "write_all"
    /\ stdin_lock = 0
    /\ stdin_lock' = c
    /\ writers' = [writers EXCEPT ![c].pc = "writing"]
    /\ UNCHANGED <<adapters, children, response_handlers, callers, child_stdout,
                   reader, answered, notification_rx, notifs_emitted, notifs_read,
                   framevars, pipe, docvars, gatewayvars, hostvars>>

\* One write of write_all's loop: the pipe takes the next k parts of the
\* buffer. A write to a child that has exited fails, and `?` returns the
\* error from the call.
Write(c, k) ==
    /\ writers[c].pc = "writing"
    /\ stdin_lock = c
    /\ k \in 1..Len(writers[c].left)
    /\ IF children[1].alive
       THEN LET left == SubSeq(writers[c].left, k + 1, Len(writers[c].left))
            IN /\ pipe' = pipe \o SubSeq(writers[c].left, 1, k)
               /\ stdin_lock' = IF guard_dropped(left) THEN 0 ELSE c
               /\ writers' = [writers EXCEPT
                                ![c].left = left,
                                ![c].pc = IF left = <<>> THEN "flush"
                                          ELSE IF guard_dropped(left) THEN "write_all"
                                          ELSE "writing"]
       ELSE /\ stdin_lock' = 0
            /\ writers' = [writers EXCEPT ![c] = NotWriting]
            /\ UNCHANGED pipe
    /\ UNCHANGED <<adapters, children, response_handlers, callers, child_stdout,
                   reader, answered, notification_rx, notifs_emitted, notifs_read,
                   framevars, docvars, gatewayvars, hostvars>>

\* `self.stdin.lock().unwrap().flush()`: the Mutex is taken again; flush on
\* a ChildStdin writes nothing. The call goes on to its return (a request
\* to its wait for the response).
Flush(c) ==
    /\ writers[c].pc = "flush"
    /\ stdin_lock = 0
    /\ writers' = [writers EXCEPT ![c] = NotWriting]
    /\ UNCHANGED <<adapters, children, response_handlers, callers, child_stdout,
                   reader, answered, notification_rx, notifs_emitted, notifs_read,
                   framevars, stdin_lock, pipe, docvars, gatewayvars, hostvars>>

\* Concurrent calls of send_request and send_notification on the clones of
\* one connection, write by write.
NextWrites ==
    \/ Spawn
    \/ ChildExit
    \/ \E c \in Callers, kind \in {"request", "notification"} : StartWrite(c, kind)
    \/ \E c \in Callers : LockStdin(c)
    \/ \E c \in Callers, k \in 1..2 : Write(c, k)
    \/ \E c \in Callers : Flush(c)

SpecWrites == InitAdapter /\ [][NextWrites]_vars

(* ----------------------------- SpecDocSteps ---------------------------- *)
DocMethod(op) ==
    CASE op = "didOpen" -> "textDocument/didOpen"
      [] op = "didChange" -> "textDocument/didChange"
      [] OTHER -> "textDocument/didClose"

\* The statements of did_open, did_change and did_close the other way
\* round: send_notification, then the two collections.
handler_statements_forward_first == <<"send_notification", "document_data">>

\* The statements of did_open, did_change and did_close in the order the
\* source has them: the two collections, then send_notification.
handler_statements == <<"document_data", "send_notification">>

\* The first statements of a document handler: document_data and
\* document_states are written (a did_change with no changes writes nothing).
DocumentUpdate(w, s, op, uri, changes) ==
    LET dd == w.adapters[s].document_data
        new_text == changes[Len(changes)]
    IN CASE op = "didOpen" ->
              [w EXCEPT !.adapters[s].document_data =
                            Put(@, uri, DocumentData(new_text, NoDiagnostics)),
                        !.adapters[s].document_states = Put(@, uri, new_text)]
         [] op = "didChange" ->
              IF changes = <<>> THEN w
              ELSE [w EXCEPT !.adapters[s].document_data =
                                 IF uri \in DOMAIN dd
                                 THEN [dd EXCEPT ![uri].content = new_text]
                                 ELSE Put(dd, uri, DocumentData(new_text, NoDiagnostics)),
                             !.adapters[s].document_states = Put(@, uri, new_text)]
         [] OTHER ->
              [w EXCEPT !.adapters[s].document_data = Remove(@, uri),
                        !.adapters[s].document_states = Remove(@, uri)]

\* A document handler is called; the one called before it has returned.
DocCall(op, u, ch) ==
    /\ StdinRoom
    /\ doc_step.op = "none" \/ doc_step.done = Len(handler_statements)
    /\ op = "didOpen" => Len(ch) = 1
    /\ op = "didClose" => ch = <<>>
    /\ doc_step' = [NoStep EXCEPT !.op = op, !.uri = u, !.changes = ch]
    /\ UNCHANGED <<adapters, children, linkvars, last_call, opened, written,
                   shutdown_calls, last_request, gatewayvars, hostvars>>

\* The handler writes the two collections.
DocStore ==
    /\ doc_step.op # "none"
    /\ doc_step.done < Len(handler_statements)
    /\ handler_statements[doc_step.done + 1] = "document_data"
    /\ adapters' = DocumentUpdate(World, 1, doc_step.op, doc_step.uri,
                                  doc_step.changes).adapters
    /\ doc_step' = [doc_step EXCEPT !.done = @ + 1]
    /\ UNCHANGED <<children, linkvars, last_call, opened, written,
                   shutdown_calls, last_request, gatewayvars, hostvars>>

\* The handler calls send_notification and logs its error, if any.
DocForward ==
    /\ doc_step.op # "none"
    /\ doc_step.done < Len(handler_statements)
    /\ handler_statements[doc_step.done + 1] = "send_notification"
    /\ \E w \in {SendNotification(World, 1, DocMethod(doc_step.op))} :
          /\ children' = w.children
          /\ doc_step' = [doc_step EXCEPT
                             !.done = @ + 1,
                             !.sent = IF w.children = children THEN "failed"
                                      ELSE "written",
                             !.store_at_send = adapters[1].document_data,
                             !.states_at_send = adapters[1].document_states]
    /\ UNCHANGED <<adapters, linkvars, last_call, opened, written,
                   shutdown_calls, last_request, gatewayvars, hostvars>>

\* The document handlers of one adapter, statement by statement, while the
\* child is spawned, exits, or the adapter is shut down.
NextDocSteps ==
    \/ Spawn
    \/ ChildExit
    \/ Shutdown
    \/ \E u \in URIs, ch \in ChangeLists : DocCall("didOpen", u, ch)
    \/ \E u \in URIs, ch \in ChangeLists : DocCall("didChange", u, ch)
    \/ \E u \in URIs, ch \in ChangeLists : DocCall("didClose", u, ch)
    \/ DocStore
    \/ DocForward

SpecDocSteps == InitAdapter /\ [][NextDocSteps]_vars

(* ------------------------------- SpecOrder ----------------------------- *)
\* The frames a client sends one after another without waiting for replies.
OrderFrames ==
    {InFrame("initialize", 1, "rust", <<"proj">>, "", "", "ok"),
     InFrame("textDocument/didOpen", 0, "rust", <<>>, "u1", "t1", "ok"),
     InFrame("textDocument/hover", 2, "", <<>>, "u1", "", "ok"),
     InFrame("textDocument/definition", 3, "", <<>>, "u1", "", "ok"),
     BadFrame("not_json", "", 0)}

\* A text frame reaches the socket while the reader task is wherever it is.
FrameArrives(f) ==
    /\ arrived < MaxArrivals
    /\ backward_task # "done"
    /\ arrived' = arrived + 1
    /\ ws_rx' = Append(ws_rx, [n |-> arrived + 1, frame |-> f])
    /\ UNCHANGED <<adapters, children, backward_task, forward_task, active_server,
                   servers, next_id, handled, last, closed, isovars, in_hand, tx,
                   linkvars, docvars, hostvars>>

\* The reader task with every frame handled by a task of its own: the next
\* frame is taken while handle_message is still running on an earlier one.
TakeFrame_spawns_handler ==
    /\ backward_task = "reading"
    /\ ws_rx # <<>>
    /\ in_hand' = in_hand \cup {Head(ws_rx)}
    /\ ws_rx' = Tail(ws_rx)
    /\ UNCHANGED <<adapters, children, backward_task, forward_task, active_server,
                   servers, next_id, handled, last, closed, isovars, tx, arrived,
                   linkvars, docvars, hostvars>>

\* The reader task, ws_rx.next().await: it is back at the top of its loop,
\* takes the oldest frame of the socket and calls handle_message on it.
TakeFrame ==
    /\ backward_task = "reading"
    /\ in_hand = {}
    /\ ws_rx # <<>>
    /\ in_hand' = in_hand \cup {Head(ws_rx)}
    /\ ws_rx' = Tail(ws_rx)
    /\ UNCHANGED <<adapters, children, backward_task, forward_task, active_server,
                   servers, next_id, handled, last, closed, isovars, tx, arrived,
                   linkvars, docvars, hostvars>>

\* handle_message on frame x comes back (or never does): what it did to the
\* session and its adapter, and its reply, unless empty, sent on the channel.
HandleMessageReturns(x, spawn_ok, outcome, runtime, detected) ==
    /\ x \in in_hand
    /\ backward_task = "reading"
    /\ detected \in detect_language_from_file_extension(DetectPath(x.frame))
    /\ \E h \in {handle_message(Gateway, x.frame,
                                 [spawn_ok |-> spawn_ok, outcome |-> outcome,
                                  runtime |-> runtime, detected |-> detected])} :
          /\ adapters' = h.g.adapters
          /\ children' = h.g.children
          /\ active_server' = h.g.active_server
          /\ servers' = h.g.servers
          /\ next_id' = h.g.next_id
          /\ backward_task' = CASE h.fate = "blocked" -> "blocked"
                                [] h.fate = "panicked" -> "panicked"
                                [] OTHER -> "reading"
          /\ in_hand' = IF h.fate = "returned" THEN in_hand \ {x} ELSE in_hand
          /\ tx' = IF h.fate = "returned" /\ h.reply.kind # "empty"
                   THEN Append(tx, [n |-> x.n, reply |-> h.reply])
                   ELSE tx
    /\ handled' = handled + 1
    /\ UNCHANGED <<forward_task, last, closed, isovars, ws_rx, arrived,
                   linkvars, docvars, hostvars>>

\* One connection whose client does not wait for replies.
NextOrder ==
    \/ \E f \in OrderFrames : FrameArrives(f)
    \/ TakeFrame
    \/ \E x \in in_hand :
          \E spawn_ok \in SpawnOutcomes(x.frame), outcome \in {"result", "error", "silent"},
             runtime \in Runtimes(x.frame),
             detected \in detect_language_from_file_extension(DetectPath(x.frame)) :
                HandleMessageReturns(x, spawn_ok, outcome, runtime, detected)
    \/ \E cause \in {"error", "eos"} : in_hand = {} /\ ConnectionEnds(cause)

SpecOrder == Init /\ [][NextOrder]_vars

(* ----------------------------- SpecIsolation --------------------------- *)
\* The reader task of a connection sees its own active_server and the
\* ServerFactory it was given.
GatewayOf(peer, factory) ==
    [active_server |-> peer.active_server, servers |-> factory.servers,
     next_id |-> factory.next_id, adapters |-> factory.adapters,
     children |-> factory.children]

FactoryOf(g) ==
    [servers |-> g.servers, next_id |-> g.next_id, adapters |-> g.adapters,
     children |-> g.children]

\* handle_connection, a text frame whose handling ended as h: the reply, if
\* any, is queued for the client of this connection.
Served(peer, h) ==
    [peer |-> [peer EXCEPT !.active_server = h.g.active_server,
                           !.handled = @ + 1,
                           !.replies = IF h.fate = "returned" /\ h.reply.kind # "empty"
                                       THEN Append(@, h.reply) ELSE @,
                           !.state = CASE h.fate = "blocked" -> "blocked"
                                       [] h.fate = "panicked" -> "panicked"
                                       [] OTHER -> "open"],
     factory |-> FactoryOf(h.g)]

\* handle_connection, the end of the inbound stream: the session is stopped.
Left(peer, factory) ==
    [peer |-> [peer EXCEPT !.active_server = 0, !.state = "closed"],
     factory |-> FactoryOf(stop_active(GatewayOf(peer, factory)))]

\* The frames the clients of two connections send.
PeerFrames ==
    {InFrame("initialize", 1, "rust", <<"proj">>, "", "", "ok"),
     InFrame("initialize", 1, "rust", <<"missing">>, "", "", "ok"),
     InFrame("textDocument/didOpen", 0, "rust", <<>>, "u1", "t1", "ok"),
     InFrame("textDocument/hover", 1, "", <<>>, "u1", "", "ok"),
     InFrame("textDocument/completion", 1, "", <<>>, "u1", "", "ok"),
     BadFrame("not_json", "", 0)}

\* warp accepts a connection: handle_connection gets a clone of the
\* manager's factory.
Connect(c) ==
    /\ peers[c].state = "none"
    /\ LET mine == CloneFactory(factories, 1)
           alone == CloneFactory(<<NewFactory>>, 1)
       IN /\ factories' = mine.fs
          /\ peers' = [peers EXCEPT ![c] = [NoPeer EXCEPT !.state = "open",
                                                         !.factory = mine.id]]
          /\ shadow' = IF c = "B"
                       THEN [peer |-> [NoPeer EXCEPT !.state = "open"],
                             factory |-> alone.fs[alone.id]]
                       ELSE shadow
    /\ UNCHANGED <<adapters, children, backward_task, forward_task, active_server,
                   servers, next_id, handled, last, closed, ordervars, linkvars, docvars, hostvars>>

\* The reader task of connection c handles a text frame.
ReceiveOn(c, f, spawn_ok, outcome, runtime, detected) ==
    /\ peers[c].state = "open"
    /\ peers[c].handled < MaxFrames
    /\ LET env == [spawn_ok |-> spawn_ok, outcome |-> outcome,
                   runtime |-> runtime, detected |-> detected]
       IN /\ \E h \in {handle_message(GatewayOf(peers[c], factories[peers[c].factory]),
                                       f, env)} :
                /\ peers' = [peers EXCEPT ![c] = [Served(peers[c], h).peer
                                                    EXCEPT !.factory = peers[c].factory]]
                /\ factories' = [factories EXCEPT ![peers[c].factory] =
                                                     Served(peers[c], h).factory]
          /\ IF c = "B"
             THEN \E h \in {handle_message(GatewayOf(shadow.peer, shadow.factory),
                                           f, env)} :
                     shadow' = Served(shadow.peer, h)
             ELSE shadow' = shadow
    /\ UNCHANGED <<adapters, children, backward_task, forward_task, active_server,
                   servers, next_id, handled, last, closed, ordervars, linkvars, docvars, hostvars>>

\* Connection c ends.
Disconnect(c) ==
    /\ peers[c].state = "open"
    /\ peers' = [peers EXCEPT ![c] = Left(peers[c], factories[peers[c].factory]).peer]
    /\ factories' = [factories EXCEPT ![peers[c].factory] =
                                         Left(peers[c], factories[peers[c].factory]).factory]
    /\ shadow' = IF c = "B" THEN Left(shadow.peer, shadow.factory) ELSE shadow
    /\ UNCHANGED <<adapters, children, backward_task, forward_task, active_server,
                   servers, next_id, handled, last, closed, ordervars, linkvars, docvars, hostvars>>

\* Two connections of one WebSocketManager.
NextIsolation ==
    \/ \E c \in Connections : Connect(c)
    \/ \E c \in Connections, f \in PeerFrames :
          \E spawn_ok \in SpawnOutcomes(f), outcome \in {"result"},
             runtime \in Runtimes(f),
             detected \in detect_language_from_file_extension(DetectPath(f)) :
                ReceiveOn(c, f, spawn_ok, outcome, runtime, detected)
    \/ \E c \in Connections : Disconnect(c)

SpecIsolation == Init /\ [][NextIsolation]_vars

(* ------------------------------ SpecPending ---------------------------- *)
\* The child writes once more the response to a request it has answered.
ChildRepeat(i) ==
    /\ children # <<>>
    /\ children[1].alive
    /\ i \in answered
    /\ notifs_emitted < MaxNotifs
    /\ notifs_emitted' = notifs_emitted + 1
    /\ child_stdout' = Append(child_stdout,
                          [type |-> "response", id |-> children[1].stdin[i].id,
                           for |-> children[1].stdin[i].from, uri |-> ""])
    /\ UNCHANGED <<adapters, children, response_handlers, callers, reader,
                   answered, notification_rx, notifs_read, framevars, writevars,
                   docvars, gatewayvars, hostvars>>

\* The child writes a response with an id no request of the adapter carries.
ChildStray ==
    /\ children # <<>>
    /\ children[1].alive
    /\ notifs_emitted < MaxNotifs
    /\ notifs_emitted' = notifs_emitted + 1
    /\ child_stdout' = Append(child_stdout,
                          [type |-> "response", id |-> 99, for |-> 0, uri |-> ""])
    /\ UNCHANGED <<adapters, children, response_handlers, callers, reader,
                   answered, notification_rx, notifs_read, framevars, writevars,
                   docvars, gatewayvars, hostvars>>

\* The link with a child that also repeats responses and answers requests
\* nobody made.
NextPending ==
    \/ \E c \in Callers, ok \in BOOLEAN : CallInitialize(c, ok)
    \/ \E c \in Callers, m \in RequestMethods : CallRequest(c, m)
    \/ \E c \in Callers : Await(c)
    \/ \E c \in Callers : Return(c)
    \/ \E i \in 1..(MaxStdin + 2) : ChildRespond(i)
    \/ \E i \in 1..(MaxStdin + 2) : ChildRepeat(i)
    \/ ChildStray
    \/ ChildExit
    \/ ReadResponses

SpecPending == InitAdapter /\ [][NextPending]_vars

(* ----------------------------- SpecRequests ---------------------------- *)
AdapterMethods ==
    {"textDocument/completion", "textDocument/hover", "textDocument/definition",
     "textDocument/references", "textDocument/formatting"}

\* A request handler of the adapter is called and runs until it returns, or
\* until it waits for a response the child does not send.
Request(method, outcome) ==
    /\ StdinRoom
    /\ last_request.returned # "pending"
    /\ \E r \in {request_handler(World, 1, method, outcome)} :
          /\ adapters' = r.g.adapters
          /\ children' = r.g.children
          /\ last_request' = [method |-> method, asked |-> r.asked,
                              returned |-> r.returned]
    /\ UNCHANGED <<linkvars, last_call, opened, written, shutdown_calls, doc_step,
                   gatewayvars, hostvars>>

\* One adapter, its child, and the five request handlers.
NextRequests ==
    \/ Spawn
    \/ ChildExit
    \/ Shutdown
    \/ \E method \in AdapterMethods, outcome \in ChildOutcomes : Request(method, outcome)

SpecRequests == InitAdapter /\ [][NextRequests]_vars

(* ------------------------------ SpecDetect ----------------------------- *)
\* One WebSocket connection whose client sends initialize requests only, for
\* every directory of the file system that holds manifests or source files.
NextDetect ==
    \/ \E f \in DetectFrames :
          \E spawn_ok \in BOOLEAN,
             detected \in detect_language_from_file_extension(DetectPath(f)) :
                Receive(f, spawn_ok, "result", "runs", detected)
    \/ ConnectionEnds("close")

SpecDetect == Init /\ [][NextDetect]_vars

(* ------------------------------ SpecEntry ------------------------------ *)
\* Path::extension of the last name of a path: "" is None.
PathExtension(file_path) ==
    IF file_path = <<>> THEN "" ELSE Extension(file_path[Len(file_path)])

\* The match on the extension in start_lsp_server and
\* create_language_server_instance: another extension leaves the language.
LanguageByExtension(extension, language) ==
    CASE extension = "rs" -> "rust"
      [] extension = "py" -> "python"
      [] extension = "js" -> "javascript"
      [] extension = "ts" -> "typescript"
      [] OTHER -> language

\* ServerFactory::create_language_server_instance
create_language_server_instance(language, file_path) ==
    LET dir_to_check == IF IsDir(file_path) THEN file_path ELSE Parent(file_path)
        by_project ==
            IF IsDir(file_path) \/ (HasParent(file_path) /\ Exists(Parent(file_path)))
            THEN IF Exists(Join(dir_to_check, "Cargo.toml")) THEN "rust"
                 ELSE IF Exists(Join(dir_to_check, "package.json"))
                 THEN IF Exists(Join(dir_to_check, "tsconfig.json"))
                      THEN "typescript" ELSE "javascript"
                 ELSE language
            ELSE language
        final_language ==
            IF language \in {"unknown", ""}
            THEN IF PathExtension(file_path) # ""
                 THEN LanguageByExtension(PathExtension(file_path), language)
                 ELSE by_project
            ELSE language
        root_path == find_project_root(final_language, file_path)
    IN IF ~root_path.ok THEN [ok |-> FALSE, err |-> root_path.err]
       ELSE IF final_language = "rust" THEN [ok |-> TRUE, err |-> "none"]
       ELSE [ok |-> FALSE, err |-> "unsupported"]

EntryLanguages == {"rust", "unknown"}

EntryPaths == RootPaths \cup {<<"gone", "main.rs">>}

Returned(op, language, file_path, ok, err) ==
    [n |-> entry.n + 1, op |-> op, language |-> language, file_path |-> file_path,
     ok |-> ok, err |-> err]

\* A call of ServerFactory::find_project_root.
CallFindProjectRoot(language, file_path) ==
    /\ entry.n < MaxCalls
    /\ entry' = Returned("find_project_root", language, file_path,
                         find_project_root(language, file_path).ok,
                         find_project_root(language, file_path).err)
    /\ UNCHANGED <<adapters, children, linkvars, docvars, gatewayvars,
                   ACTIVE_SERVERS, stdio_calls, server_threads, walk, wsvars>>

\* A call of ServerFactory::create_server on the factory of a connection.
CallCreateServer(language, file_path) ==
    /\ entry.n < MaxCalls
    /\ LET c == create_server(Gateway, language, file_path)
       IN /\ adapters' = c.g.adapters
          /\ children' = c.g.children
          /\ servers' = c.g.servers
          /\ next_id' = c.g.next_id
          /\ entry' = Returned("create_server", language, file_path, c.ok, c.err)
    /\ UNCHANGED <<backward_task, forward_task, active_server, handled, last, closed,
                   isovars, ordervars, linkvars, docvars, ACTIVE_SERVERS, stdio_calls, server_threads,
                   walk, wsvars>>

\* A call of ServerFactory::create_language_server_instance.
CallCreateInstance(language, file_path) ==
    /\ entry.n < MaxCalls
    /\ entry' = Returned("create_language_server_instance", language, file_path,
                         create_language_server_instance(language, file_path).ok,
                         create_language_server_instance(language, file_path).err)
    /\ UNCHANGED <<adapters, children, linkvars, docvars, gatewayvars,
                   ACTIVE_SERVERS, stdio_calls, server_threads, walk, wsvars>>

\* start_lsp_server up to the end of the read-locked block: the path, the
\* language, and whether ACTIVE_SERVERS has the language.
StartLspServerCheck(c, language, file_path) ==
    LET normalized_language ==
            IF language \in {"unknown", ""}
            THEN LanguageByExtension(PathExtension(file_path), language)
            ELSE language
        err == IF ~Exists(file_path) THEN "path_not_found"
               ELSE IF normalized_language \notin get_supported_languages
               THEN "unsupported"
               ELSE "none"
        is_server_running == normalized_language \in ACTIVE_SERVERS
    IN /\ stdio_calls[c].pc = "idle"
       /\ entry.n < MaxCalls
       /\ IF err # "none" \/ is_server_running
          THEN /\ stdio_calls' =
                      [stdio_calls EXCEPT ![c] =
                          [pc |-> "done", language |-> "", file_path |-> <<>>,
                           result |-> IF err # "none" THEN err ELSE "already_running"]]
               /\ entry' = Returned("start_lsp_server", language, file_path,
                                    err = "none", err)
          ELSE /\ stdio_calls' =
                      [stdio_calls EXCEPT ![c] =
                          [pc |-> "insert", language |-> normalized_language,
                           file_path |-> file_path, result |-> "none"]]
               /\ UNCHANGED entry
       /\ UNCHANGED <<adapters, children, linkvars, docvars, gatewayvars,
                      ACTIVE_SERVERS, server_threads, walk, wsvars>>

\* start_lsp_server from the write-locked block on: the entry is inserted, the
\* thread is spawned and the call returns.
StartLspServerInsert(c) ==
    /\ stdio_calls[c].pc = "insert"
    /\ ACTIVE_SERVERS' = ACTIVE_SERVERS \cup {stdio_calls[c].language}
    /\ server_threads' = Append(server_threads,
                                [language |-> stdio_calls[c].language,
                                 file_path |-> stdio_calls[c].file_path,
                                 state |-> "spawned", by |-> c])
    /\ stdio_calls' = [stdio_calls EXCEPT ![c] =
                           [pc |-> "done", language |-> "", file_path |-> <<>>,
                            result |-> "started"]]
    /\ entry' = Returned("start_lsp_server", stdio_calls[c].language,
                         stdio_calls[c].file_path, TRUE, "none")
    /\ UNCHANGED <<adapters, children, linkvars, docvars, gatewayvars, walk, wsvars>>

\* The spawned thread runs start_language_server up to serve(): an error of
\* create_language_server_instance removes the entry of the language. The
\* path may have been removed since start_lsp_server looked at it.
ServerThreadStarts(i, removed) ==
    /\ i \in DOMAIN server_threads
    /\ server_threads[i].state = "spawned"
    /\ LET t == server_threads[i]
           server == IF removed THEN [ok |-> FALSE, err |-> NotFound.err]
                     ELSE create_language_server_instance(t.language, t.file_path)
       IN IF server.ok
          THEN /\ server_threads' = [server_threads EXCEPT ![i].state = "serving"]
               /\ UNCHANGED ACTIVE_SERVERS
          ELSE /\ server_threads' = [server_threads EXCEPT ![i].state = "failed"]
               /\ ACTIVE_SERVERS' = ACTIVE_SERVERS \ {t.language}
    /\ UNCHANGED <<adapters, children, linkvars, docvars, gatewayvars,
                   stdio_calls, entry, walk, wsvars>>

\* Server::serve returns (stdin is closed): start_language_server returns
\* Ok, and the entry of the language stays.
ServeEnds(i) ==
    /\ i \in DOMAIN server_threads
    /\ server_threads[i].state = "serving"
    /\ server_threads' = [server_threads EXCEPT ![i].state = "ended"]
    /\ UNCHANGED <<adapters, children, linkvars, docvars, gatewayvars,
                   ACTIVE_SERVERS, stdio_calls, entry, walk, wsvars>>

\* The entry points that take a path, called in any order, and the
\* concurrent calls of start_lsp_server with the threads they spawn.
NextEntry ==
    \/ \E l \in EntryLanguages, p \in EntryPaths : CallFindProjectRoot(l, p)
    \/ \E l \in EntryLanguages, p \in EntryPaths : CallCreateServer(l, p)
    \/ \E l \in EntryLanguages, p \in EntryPaths : CallCreateInstance(l, p)
    \/ \E c \in Callers, l \in EntryLanguages, p \in EntryPaths :
          StartLspServerCheck(c, l, p)
    \/ \E c \in Callers : StartLspServerInsert(c)
    \/ \E i \in 1..MaxCallers, removed \in BOOLEAN : ServerThreadStarts(i, removed)
    \/ \E i \in 1..MaxCallers : ServeEnds(i)

SpecEntry == Init /\ [][NextEntry]_vars

(* ---------------------------- SpecCapabilities ------------------------- *)
\* The key the throw-away adapter of get_server_capabilities is held under
\* while the call runs: it is a local of the call, in no registry.
Local == 0

\* ServerFactory::get_server_capabilities with RustLspAdapter::get_capabilities:
\* a new adapter for "rust", LanguageServer::initialize on a clone of its
\* server inside a Runtime built for the call (block_on panics when the
\* caller is inside a runtime: env.runtime = "panic"), the capabilities or
\* an error value, and the adapter dropped when the call returns. Nothing
\* calls shutdown, and dropping a std::process::Child does not kill it.
get_server_capabilities(g, language, env) ==
    IF language # "rust"
    THEN [g |-> g, fate |-> "returned", value |-> "capabilities_error"]
    ELSE IF env.runtime = "panic"
    THEN [g |-> g, fate |-> "panicked", value |-> "none"]
    ELSE LET g1 == [g EXCEPT !.adapters = Put(@, Local, NewRustLspAdapter("rust", <<>>))]
             h == initialize(g1, Local, 1, env)
         IN [g |-> [h.g EXCEPT !.adapters = Remove(@, Local)],
             fate |-> h.fate,
             value |-> IF h.fate # "returned" THEN "none"
                       ELSE IF h.reply.kind = "result" THEN "capabilities"
                       ELSE "capabilities_error"]

\* A call of ServerFactory::get_server_capabilities on the factory of a
\* connection.
CallGetServerCapabilities(language, spawn_ok, outcome, runtime) ==
    /\ entry.n < MaxCalls
    /\ \E c \in {get_server_capabilities(Gateway, language,
                       [spawn_ok |-> spawn_ok, outcome |-> outcome,
                        runtime |-> runtime, detected |-> "none"])} :
          /\ adapters' = c.g.adapters
          /\ children' = c.g.children
          /\ servers' = c.g.servers
          /\ next_id' = c.g.next_id
          /\ entry' = Returned("get_server_capabilities", language, <<>>,
                               c.fate = "returned", c.value)
    /\ UNCHANGED <<backward_task, forward_task, active_server, handled, last, closed,
                   isovars, ordervars, linkvars, docvars, ACTIVE_SERVERS, stdio_calls,
                   server_threads, walk, wsvars>>

\* A child whose adapter is gone exits on its own.
OrphanExits(k) ==
    /\ k \in DOMAIN children
    /\ children[k].alive
    /\ \A s \in DOMAIN adapters : adapters[s].process # k
    /\ children' = [children EXCEPT ![k].alive = FALSE]
    /\ UNCHANGED <<adapters, linkvars, docvars, gatewayvars, hostvars>>

\* A factory asked for capabilities and for servers, in any order.
NextCapabilities ==
    \/ \E l \in EntryLanguages, spawn_ok \in BOOLEAN, outcome \in ChildOutcomes,
          runtime \in {"runs", "panic"} :
             CallGetServerCapabilities(l, spawn_ok, outcome, runtime)
    \/ \E l \in EntryLanguages, p \in EntryPaths : CallCreateServer(l, p)
    \/ \E k \in 1..MaxCalls : OrphanExits(k)

SpecCapabilities == Init /\ [][NextCapabilities]_vars

(* ---------------------------- SpecLifecycle ---------------------------- *)
\* The ports a thread of this process listens on.
Listening == {p \in Ports : ports[p] > 0}

\* start_lsp_websocket_server: the load of the running flag.
StartWsCheck(c) ==
    /\ ws_calls[c].pc = "idle"
    /\ ws_calls' = IF WS_SERVER_RUNNING
                   THEN [ws_calls EXCEPT ![c] = [pc |-> "done", result |-> "already_running"]]
                   ELSE [ws_calls EXCEPT ![c].pc = "probe"]
    /\ UNCHANGED <<adapters, children, linkvars, docvars, gatewayvars,
                   ACTIVE_SERVERS, stdio_calls, server_threads, entry, walk,
                   WS_SERVER_RUNNING, WS_MANAGER, managers, ws_threads, ports,
                   connections, last_op>>

\* start_lsp_websocket_server: the tester socket is bound to the port and
\* dropped; a taken port sets the running flag and the call returns.
StartWsProbe(c) ==
    /\ ws_calls[c].pc = "probe"
    /\ IF ports[0] = Free
       THEN /\ ws_calls' = [ws_calls EXCEPT ![c].pc = "spawn"]
            /\ UNCHANGED WS_SERVER_RUNNING
       ELSE /\ ws_calls' = [ws_calls EXCEPT ![c] =
                               [pc |-> "done", result |-> "already_running"]]
            /\ WS_SERVER_RUNNING' = TRUE
    /\ UNCHANGED <<adapters, children, linkvars, docvars, gatewayvars,
                   ACTIVE_SERVERS, stdio_calls, server_threads, entry, walk,
                   WS_MANAGER, managers, ws_threads, ports, connections, last_op>>

\* start_lsp_websocket_server: a new manager, a clone of it in WS_MANAGER
\* (the clone shares the clients registry), the thread, the return.
StartWsSpawn(c) ==
    /\ ws_calls[c].pc = "spawn"
    /\ managers' = Append(managers, {})
    /\ WS_MANAGER' = Len(managers) + 1
    /\ ws_threads' = Append(ws_threads,
                            [manager |-> Len(managers) + 1, state |-> "spawned",
                             current_port |-> 0, attempt |-> 0])
    /\ ws_calls' = [ws_calls EXCEPT ![c] = [pc |-> "done", result |-> "starting"]]
    /\ UNCHANGED <<adapters, children, linkvars, docvars, gatewayvars,
                   ACTIVE_SERVERS, stdio_calls, server_threads, entry, walk,
                   WS_SERVER_RUNNING, ports, connections, last_op>>

\* The spawned thread sets the running flag.
WsThreadSetsFlag(i) ==
    /\ i \in DOMAIN ws_threads
    /\ ws_threads[i].state = "spawned"
    /\ WS_SERVER_RUNNING' = TRUE
    /\ ws_threads' = [ws_threads EXCEPT ![i].state = "binding"]
    /\ UNCHANGED <<adapters, children, linkvars, docvars, gatewayvars,
                   ACTIVE_SERVERS, stdio_calls, server_threads, entry, walk,
                   WS_MANAGER, managers, ws_calls, ports, connections, last_op>>

\* The loop of the spawned thread without the store of false after its last
\* attempt.
WsThreadBinds_gives_up_silently(i) ==
    /\ i \in DOMAIN ws_threads
    /\ ws_threads[i].state = "binding"
    /\ LET t == ws_threads[i]
       IN IF ports[t.current_port] = Free
          THEN /\ ports' = [ports EXCEPT ![t.current_port] = i]
               /\ ws_threads' = [ws_threads EXCEPT ![i].state = "serving"]
               /\ UNCHANGED WS_SERVER_RUNNING
          ELSE IF t.attempt < max_attempts - 1
          THEN /\ ws_threads' = [ws_threads EXCEPT ![i].current_port = @ + 1,
                                                   ![i].attempt = @ + 1]
               /\ UNCHANGED <<ports, WS_SERVER_RUNNING>>
          ELSE /\ ws_threads' = [ws_threads EXCEPT ![i].state = "gave_up"]
               /\ UNCHANGED <<ports, WS_SERVER_RUNNING>>
    /\ UNCHANGED <<adapters, children, linkvars, docvars, gatewayvars,
                   ACTIVE_SERVERS, stdio_calls, server_threads, entry, walk,
                   WS_MANAGER, managers, ws_calls, connections, last_op>>

\* The spawned thread, one turn of its loop: WebSocketManager::start_server
\* binds current_port and serves (it does not return), or fails; after a
\* failure the next port is tried, and after the last attempt the flag is
\* cleared.
WsThreadBinds(i) ==
    /\ i \in DOMAIN ws_threads
    /\ ws_threads[i].state = "binding"
    /\ LET t == ws_threads[i]
       IN IF ports[t.current_port] = Free
          THEN /\ ports' = [ports EXCEPT ![t.current_port] = i]
               /\ ws_threads' = [ws_threads EXCEPT ![i].state = "serving"]
               /\ UNCHANGED WS_SERVER_RUNNING
          ELSE IF t.attempt < max_attempts - 1
          THEN /\ ws_threads' = [ws_threads EXCEPT ![i].current_port = @ + 1,
                                                   ![i].attempt = @ + 1]
               /\ UNCHANGED <<ports, WS_SERVER_RUNNING>>
          ELSE /\ ws_threads' = [ws_threads EXCEPT ![i].state = "gave_up"]
               /\ WS_SERVER_RUNNING' = FALSE
               /\ UNCHANGED ports
    /\ UNCHANGED <<adapters, children, linkvars, docvars, gatewayvars,
                   ACTIVE_SERVERS, stdio_calls, server_threads, entry, walk,
                   WS_MANAGER, managers, ws_calls, connections, last_op>>

\* Another process binds one of the ports.
ForeignBind(p) ==
    /\ ports[p] = Free
    /\ ports' = [ports EXCEPT ![p] = Foreign]
    /\ UNCHANGED <<adapters, children, linkvars, docvars, gatewayvars,
                   ACTIVE_SERVERS, stdio_calls, server_threads, entry, walk,
                   WS_SERVER_RUNNING, WS_MANAGER, managers, ws_calls, ws_threads,
                   connections, last_op>>

\* handle_connection, its start: a client connects to a listener of the
\* process and its sender is pushed to the registry of that listener's manager.
ClientConnects(p) ==
    /\ p \in Listening
    /\ Len(connections) < MaxClients
    /\ LET m == ws_threads[ports[p]].manager
       IN /\ connections' = Append(connections,
                                   [manager |-> m, port |-> p, open |-> TRUE,
                                    child |-> "none", close_queued |-> FALSE])
          /\ managers' = [managers EXCEPT ![m] = @ \cup {Len(connections) + 1}]
    /\ UNCHANGED <<adapters, children, linkvars, docvars, gatewayvars,
                   ACTIVE_SERVERS, stdio_calls, server_threads, entry, walk,
                   WS_SERVER_RUNNING, WS_MANAGER, ws_calls, ws_threads, ports,
                   last_op>>

\* A successful initialize on a connection: its session has a running child.
ClientInitializes(k) ==
    /\ k \in DOMAIN connections
    /\ connections[k].open
    /\ connections[k].child = "none"
    /\ connections' = [connections EXCEPT ![k].child = "alive"]
    /\ UNCHANGED <<adapters, children, linkvars, docvars, gatewayvars,
                   ACTIVE_SERVERS, stdio_calls, server_threads, entry, walk,
                   WS_SERVER_RUNNING, WS_MANAGER, managers, ws_calls, ws_threads,
                   ports, last_op>>

\* The client closes its socket (on its own, or answering a close frame): the
\* reader task of the connection stops the session, which kills the child.
\* The sender stays in the registry.
ClientLeaves(k) ==
    /\ k \in DOMAIN connections
    /\ connections[k].open
    /\ connections' = [connections EXCEPT
                          ![k].open = FALSE,
                          ![k].child = IF @ = "alive" THEN "dead" ELSE @]
    /\ UNCHANGED <<adapters, children, linkvars, docvars, gatewayvars,
                   ACTIVE_SERVERS, stdio_calls, server_threads, entry, walk,
                   WS_SERVER_RUNNING, WS_MANAGER, managers, ws_calls, ws_threads,
                   ports, last_op>>

\* WebSocketManager::stop_server on manager m: a close message is queued on
\* the sender of every registered client (the send fails for a connection
\* that is gone) and the registry is cleared.
stop_ws_server(conns, regs, m) ==
    [connections |-> [k \in DOMAIN conns |->
                         IF k \in regs[m] /\ conns[k].open
                         THEN [conns[k] EXCEPT !.close_queued = TRUE]
                         ELSE conns[k]],
     managers |-> [regs EXCEPT ![m] = {}]]

\* stop_lsp_websocket_server
StopWs ==
    /\ last_op.n < MaxStops
    /\ IF ~WS_SERVER_RUNNING
       THEN /\ last_op' = [n |-> last_op.n + 1, op |-> "stop",
                           was_running |-> FALSE, result |-> "not_running"]
            /\ UNCHANGED <<WS_SERVER_RUNNING, connections, managers>>
       ELSE IF WS_MANAGER = 0
       THEN /\ last_op' = [n |-> last_op.n + 1, op |-> "stop",
                           was_running |-> TRUE, result |-> "err_not_initialized"]
            /\ UNCHANGED <<WS_SERVER_RUNNING, connections, managers>>
       ELSE /\ connections' = stop_ws_server(connections, managers, WS_MANAGER).connections
            /\ managers' = stop_ws_server(connections, managers, WS_MANAGER).managers
            /\ WS_SERVER_RUNNING' = FALSE
            /\ last_op' = [n |-> last_op.n + 1, op |-> "stop",
                           was_running |-> TRUE, result |-> "stopped"]
    /\ UNCHANGED <<adapters, children, linkvars, docvars, gatewayvars,
                   ACTIVE_SERVERS, stdio_calls, server_threads, entry, walk,
                   WS_MANAGER, ws_calls, ws_threads, ports>>

\* cleanup_on_exit
CleanupOnExit ==
    /\ last_op.n < MaxStops
    /\ IF ~WS_SERVER_RUNNING
       THEN /\ last_op' = [n |-> last_op.n + 1, op |-> "cleanup",
                           was_running |-> FALSE, result |-> "not_running"]
            /\ UNCHANGED <<WS_SERVER_RUNNING, connections, managers>>
       ELSE IF WS_MANAGER = 0
       THEN /\ last_op' = [n |-> last_op.n + 1, op |-> "cleanup",
                           was_running |-> TRUE, result |-> "err_not_initialized"]
            /\ UNCHANGED <<WS_SERVER_RUNNING, connections, managers>>
       ELSE /\ connections' = stop_ws_server(connections, managers, WS_MANAGER).connections
            /\ managers' = stop_ws_server(connections, managers, WS_MANAGER).managers
            /\ WS_SERVER_RUNNING' = FALSE
            /\ last_op' = [n |-> last_op.n + 1, op |-> "cleanup",
                           was_running |-> TRUE, result |-> "stopped"]
    /\ UNCHANGED <<adapters, children, linkvars, docvars, gatewayvars,
                   ACTIVE_SERVERS, stdio_calls, server_threads, entry, walk,
                   WS_MANAGER, ws_calls, ws_threads, ports>>

\* The gateway's lifecycle: concurrent start calls and their threads, the
\* clients of the listeners, stop and the exit hook.
NextLifecycle ==
    \/ \E c \in Callers : StartWsCheck(c)
    \/ \E c \in Callers : StartWsProbe(c)
    \/ \E c \in Callers : StartWsSpawn(c)
    \/ \E i \in 1..MaxCallers : WsThreadSetsFlag(i)
    \/ \E i \in 1..MaxCallers : WsThreadBinds(i)
    \/ \E p \in Ports : ForeignBind(p)
    \/ \E p \in Ports : ClientConnects(p)
    \/ \E k \in 1..MaxClients : ClientInitializes(k)
    \/ \E k \in 1..MaxClients : ClientLeaves(k)
    \/ StopWs
    \/ CleanupOnExit

SpecLifecycle == Init /\ [][NextLifecycle]_vars

\* The start calls, their threads and the ports, with stop and the exit hook
\* but without clients.
NextRetry ==
    \/ \E c \in Callers : StartWsCheck(c)
    \/ \E c \in Callers : StartWsProbe(c)
    \/ \E c \in Callers : StartWsSpawn(c)
    \/ \E i \in 1..MaxCallers : WsThreadSetsFlag(i)
    \/ \E i \in 1..MaxCallers : WsThreadBinds(i)
    \/ \E p \in Ports : ForeignBind(p)
    \/ StopWs
    \/ CleanupOnExit

SpecRetry == Init /\ [][NextRetry]_vars

(* ------------------------------- SpecRoot ------------------------------ *)
RootLanguages == {"rust", "javascript", "python", "generic"}

QueryPaths == Dirs \cup Files \cup {<<"missing">>}

\* find_project_root is called: the checks before the loop.
FindProjectRootCall(language, file_path) ==
    /\ walk.pc \in {"none", "returned"}
    /\ LET start == StartDir(file_path)
       IN walk' = [pc |-> IF start.ok THEN "loop" ELSE "returned",
                   language |-> language, file_path |-> file_path,
                   start_dir |-> start.val, current_dir |-> start.val,
                   iterations |-> 0, examined |-> <<>>,
                   result |-> IF start.ok THEN NotFound ELSE start]
    /\ UNCHANGED <<adapters, children, linkvars, docvars, gatewayvars,
                   ACTIVE_SERVERS, stdio_calls, server_threads, entry, wsvars>>

\* find_project_root, one turn of its loop.
FindProjectRootTurn ==
    /\ walk.pc = "loop"
    /\ LET t == LoopTurn(ConfigFiles(walk.language), walk.start_dir,
                         walk.current_dir, walk.iterations)
       IN walk' = [walk EXCEPT !.pc = IF t.done THEN "returned" ELSE "loop",
                               !.current_dir = t.current_dir,
                               !.iterations = t.iterations,
                               !.examined = Append(@, walk.current_dir),
                               !.result = t.result]
    /\ UNCHANGED <<adapters, children, linkvars, docvars, gatewayvars,
                   ACTIVE_SERVERS, stdio_calls, server_threads, entry, wsvars>>

NextRoot ==
    \/ \E l \in RootLanguages, p \in QueryPaths : FindProjectRootCall(l, p)
    \/ FindProjectRootTurn

SpecRoot == Init /\ [][NextRoot]_vars

(* ----------------------------- SpecRootAgain --------------------------- *)
\* find_project_root is called with the language of the call that returned
\* last and, as its path, the directory that call returned.
FindProjectRootOnResult ==
    /\ walk.pc = "returned"
    /\ walk.result.ok
    /\ entry.n < MaxCalls
    /\ LET start == StartDir(walk.result.val)
       IN walk' = [pc |-> IF start.ok THEN "loop" ELSE "returned",
                   language |-> walk.language, file_path |-> walk.result.val,
                   start_dir |-> start.val, current_dir |-> start.val,
                   iterations |-> 0, examined |-> <<>>,
                   result |-> IF start.ok THEN NotFound ELSE start]
    /\ entry' = Returned("find_project_root", walk.language, walk.result.val,
                         TRUE, "none")
    /\ UNCHANGED <<adapters, children, linkvars, docvars, gatewayvars,
                   ACTIVE_SERVERS, stdio_calls, server_threads, wsvars>>

\* Calls of find_project_root on absolute and relative paths, and on what
\* they return.
NextRootAgain ==
    \/ \E l \in RootLanguages,
          p \in QueryPaths \cup RelativeDirs \cup RelativeFiles : FindProjectRootCall(l, p)
    \/ FindProjectRootTurn
    \/ FindProjectRootOnResult

SpecRootAgain == Init /\ [][NextRootAgain]_vars

(* ------------------------------- claims -------------------------------- *)
Stdin == IF children = <<>> THEN <<>> ELSE children[1].stdin

LinkAlive == children # <<>> /\ children[1].alive /\ reader = "running"

\* C1: every caller of send_request is resolved with the response to its own
\* request (no caller receives another caller's response), and no caller's
\* wait fails while the link is alive.
C1_EachCallerGetsItsOwnResponse ==
    \A c \in Callers :
        /\ callers[c].rx = "ok" => callers[c].rx_for = c
        /\ callers[c].rx = "closed" => ~LinkAlive

\* C2: the request ids written to the child by successive send_request calls
\* of one adapter are strictly increasing.
C2_RequestIdsStrictlyIncreasing ==
    \A i, j \in 1..Len(Stdin) :
        (i < j /\ Stdin[i].id # 0 /\ Stdin[j].id # 0) => Stdin[i].id < Stdin[j].id

\* C5: once read_responses has stopped at end-of-stream, every caller still
\* waiting for its response eventually returns with a failure.
C5_PendingCallersFailAfterEof ==
    \A c \in Callers :
        (reader = "stopped" /\ callers[c].pc = "waiting" /\ callers[c].rx = "pending")
            ~> (callers[c].result = "failed")

\* C6: every frame with a method and no id that read_responses has consumed
\* has been delivered to the adapter's notification channel.
C6_NotificationsReachChannel == notifs_read = Len(notification_rx)

Docs == adapters[1].document_data

\* C7: after didOpen(U, T) the stored content of U is T; after a didChange
\* for U with a non-empty change list it is the text of the last change;
\* after didClose(U) there is no entry for U.
C7_StoredContentFollowsHandlers ==
    /\ last_call.op = "didOpen" =>
            /\ last_call.uri \in DOMAIN Docs
            /\ Docs[last_call.uri].content = last_call.text
    /\ (last_call.op = "didChange" /\ last_call.changes # <<>>) =>
            /\ last_call.uri \in DOMAIN Docs
            /\ Docs[last_call.uri].content = last_call.changes[Len(last_call.changes)]
    /\ last_call.op = "didClose" => last_call.uri \notin DOMAIN Docs

\* A didChange with two different changes, after a didOpen of the same URI.
C7_Witness ==
    /\ last_call.op = "didChange"
    /\ last_call.changes = <<"t1", "t2">>
    /\ last_call.uri \in opened
    /\ Docs[last_call.uri].content = "t2"

\* C8 (as claimed): a DocumentData entry exists for U exactly when a didOpen
\* for U has been handled and no didClose for U after it.
C8_EntryIffOpened == DOMAIN Docs = opened

\* C8 (amended): a DocumentData entry exists for U exactly when a didOpen for
\* U or a didChange for U with a non-empty change list has been handled and
\* no didClose for U after it.
C8_EntryIffOpenedOrChanged == DOMAIN Docs = written

\* An entry created by didChange alone, and an entry removed by didClose.
C8_Witness ==
    /\ last_call.op = "didClose"
    /\ \E u \in DOMAIN Docs : u \notin opened

\* C3: when a second successful initialize replaces the session of a
\* connection, the adapter stored before has been removed from the registry
\* and its child process killed, so that at most one adapter of the
\* connection is not shut down.
C3_SecondInitializeShutsDownThePrevious ==
    (/\ last.fate = "returned"
     /\ last.frame.method = "initialize"
     /\ last.frame.id # 0
     /\ last.reply.kind = "result"
     /\ last.session # 0
     /\ last.child_alive) =>
        /\ last.session \notin servers
        /\ ~children[last.child].alive

ForwardedMethods ==
    {f.method : f \in InFrames} \ {"initialize", "initialized", "textDocument/didOpen"}

\* C10: with an active session whose child is running, a frame of any other
\* method is written to that child, and the reply to a request the child
\* answered with a result carries that result.
C10_OtherMethodsReachTheChild ==
    (/\ last.fate = "returned"
     /\ last.frame.method \in ForwardedMethods
     /\ last.session # 0
     /\ last.child # 0
     /\ last.child_alive) =>
        /\ Len(children[last.child].stdin) = last.stdin_before + 1
        /\ children[last.child].stdin[last.stdin_before + 1].method = last.frame.method
        /\ (last.frame.id # 0 /\ last.asked = "result") =>
                (last.reply.kind = "result" /\ last.reply.body = "child")

\* C11: an initialize with an id that declares a supported language, whose
\* declared path cannot be resolved to a project root, still leaves the
\* connection with a new registered server as its session.
C11_ResolutionFailureFallsBack ==
    (/\ backward_task = "reading"
     /\ last.fate = "returned"
     /\ last.frame.method = "initialize"
     /\ last.frame.id # 0
     /\ last.frame.params = "ok"
     /\ last.frame.language \in get_supported_languages
     /\ ~find_project_root(last.frame.language, last.frame.path).ok) =>
        /\ active_server # 0
        /\ active_server # last.session
        /\ active_server \in servers

\* C12: a call of find_project_root, create_server,
\* create_language_server_instance or start_lsp_server with a path that does
\* not exist returns the path-not-found error, and the step in which it
\* returns spawns no child, starts no thread and adds no entry to the factory's
\* registry or to ACTIVE_SERVERS.
C12_MissingPathFailsWithoutSpawn ==
    [][(entry'.n = entry.n + 1 /\ ~Exists(entry'.file_path)) =>
          /\ ~entry'.ok
          /\ entry'.err = "path_not_found"
          /\ children' = children
          /\ servers' = servers
          /\ adapters' = adapters
          /\ ACTIVE_SERVERS' = ACTIVE_SERVERS
          /\ server_threads' = server_threads]_vars

\* Each of the four entry points has returned for a path that does not exist.
C12_Witness ==
    /\ entry.op = "start_lsp_server"
    /\ ~Exists(entry.file_path)
    /\ entry.err = "path_not_found"
    /\ entry.n = MaxCalls
    /\ next_id > 1
    /\ servers = {}

\* The threads of start_lsp_server that run or are about to run a server
\* of a language.
LiveThreads(language) ==
    {i \in DOMAIN server_threads :
        /\ server_threads[i].language = language
        /\ server_threads[i].state \in {"spawned", "serving"}}

\* C18: while a language has its entry in ACTIVE_SERVERS, at most one
\* stdio-mode server thread spawned for it is running, however the calls of
\* start_lsp_server interleave.
C18_OneStdioThreadPerLanguage ==
    \A l \in ACTIVE_SERVERS : Cardinality(LiveThreads(l)) <= 1

\* C13: an initialize with an id and params, handled while the connection
\* can still deliver replies, whose declared language (or, with none
\* declared, the detected one) is not supported, is answered with error
\* -32601 naming the supported languages; the step creates no server, spawns
\* no child, consumes no server id and leaves the session as it was.
C13_UnsupportedLanguageIsRefused ==
    [][(/\ handled' = handled + 1
        /\ forward_task = "running"
        /\ last'.frame.method = "initialize"
        /\ last'.frame.id # 0
        /\ last'.frame.params # "none"
        /\ FinalLanguage(last'.frame, last'.detected) \notin get_supported_languages) =>
          /\ last'.reply = UnsupportedLanguage(last'.frame.id)
          /\ backward_task' = "reading"
          /\ servers' = servers
          /\ adapters' = adapters
          /\ children' = children
          /\ next_id' = next_id
          /\ active_server' = active_server]_vars

\* A connection with a running session has been asked for a "cobol" server.
C13_Witness ==
    /\ last.frame.method = "initialize"
    /\ last.frame.language = "cobol"
    /\ last.reply.code = -32601
    /\ last.reply.languages = {"rust"}
    /\ active_server # 0
    /\ active_server = last.session
    /\ adapters[active_server].process # 0

\* C14: a frame that is not valid JSON is answered with error -32700 and id
\* null; valid JSON that is not an object, or an object without jsonrpc, with
\* a jsonrpc other than "2.0" or without method, is answered with error
\* -32600; on a connection that can deliver the answer the reader task goes on
\* reading, and no server or session is touched.
C14_MalformedFramesAreAnswered ==
    [][(/\ handled' = handled + 1
        /\ forward_task = "running"
        /\ last'.frame.shape # "ok") =>
          /\ last'.reply.kind = "error"
          /\ last'.reply.code = IF last'.frame.shape = "not_json" THEN -32700 ELSE -32600
          /\ last'.frame.shape = "not_json" => last'.reply.id = 0
          /\ backward_task' = "reading"
          /\ closed' = closed
          /\ servers' = servers
          /\ adapters' = adapters
          /\ children' = children
          /\ active_server' = active_server]_vars

\* After a frame that was not JSON the reader has handled an initialize and
\* answered it with a result.
C14_Witness ==
    /\ last.after = "not_json"
    /\ last.frame.shape = "ok"
    /\ last.frame.method = "initialize"
    /\ last.reply.kind = "result"
    /\ backward_task = "reading"

\* C15: however two calls of start_lsp_websocket_server for one port
\* interleave with each other and with the threads they spawn, the process
\* never listens on more than one port.
C15_AtMostOneListener ==
    Cardinality(Listening) <= 1

\* C16: a call of stop_lsp_websocket_server made while the running flag is
\* true returns success, leaves the flag false and the registry of the
\* manager empty, with a close message queued for every open registered
\* client; made while the flag is false it returns success and changes nothing.
C16_StopWhenRunningStops ==
    [][(last_op'.n = last_op.n + 1 /\ last_op'.op = "stop") =>
          IF WS_SERVER_RUNNING
          THEN /\ last_op'.result = "stopped"
               /\ ~WS_SERVER_RUNNING'
               /\ WS_MANAGER # 0
               /\ managers'[WS_MANAGER] = {}
               /\ \A k \in managers[WS_MANAGER] :
                     connections[k].open => connections'[k].close_queued
          ELSE /\ last_op'.result = "not_running"
               /\ UNCHANGED <<WS_SERVER_RUNNING, WS_MANAGER, managers, connections,
                              ports, ws_threads>>]_vars

\* C17: when cleanup_on_exit returns from a call made with the running flag
\* true, no open connection has a living child and the process listens on no
\* port.
C17_CleanupLeavesNothingBehind ==
    [][(last_op'.n = last_op.n + 1 /\ last_op'.op = "cleanup" /\ WS_SERVER_RUNNING) =>
          /\ \A k \in DOMAIN connections' : connections'[k].child # "alive"
          /\ \A p \in Ports : ports'[p] \in {Free, Foreign}]_vars

\* d with its last n names removed: n steps up from d.
Up(d, n) == SubSeq(d, 1, Len(d) - n)

\* The directory find_project_root starts in for an existing path.
StartOf(file_path) == IF IsDir(file_path) THEN file_path ELSE Parent(file_path)

MarkerSteps(language, d) ==
    {n \in 0..10 : /\ n <= Len(d)
                   /\ \E c \in ConfigFiles(language) : Exists(Join(Up(d, n), c))}

Nearest(S) == CHOOSE n \in S : \A m \in S : n <= m

\* C20: find_project_root returns the nearest directory with a marker file
\* of the language among the starting directory and the directories up to ten
\* steps above it, and the starting directory when there is none.
C20_NearestMarkerWithinTenSteps ==
    (walk.pc = "returned" /\ walk.result.ok) =>
        walk.result.val =
            IF MarkerSteps(walk.language, walk.start_dir) = {}
            THEN walk.start_dir
            ELSE Up(walk.start_dir, Nearest(MarkerSteps(walk.language, walk.start_dir)))

\* Path::join(name).exists() for a directory.
Has(dir, name) == Exists(Join(dir, name))

\* The languages of the source files of a directory, by extension.
SourceLanguages(dir) ==
    {LanguageOfExtension(x) : x \in {Extension(e[Len(e)]) : e \in Entries(dir)}
                                    \cap {"rs", "py", "js", "ts"}}

\* C21: an initialize with params whose language is "unknown" or empty and
\* whose rootUri is a directory with a Cargo.toml creates and registers, as the
\* session, a server of language rust whose root is that directory; and for a
\* directory the language detected is rust with a Cargo.toml, else typescript
\* or javascript with a package.json (typescript with a tsconfig.json beside
\* it), else python with a pyproject.toml or a requirements.txt, else the
\* language of one of its source files, else none.
C21_CargoDirectoryIsHandledAsRust ==
    /\ [][(/\ handled' = handled + 1
           /\ last'.frame.method = "initialize"
           /\ last'.frame.id # 0
           /\ last'.frame.params = "ok"
           /\ last'.frame.language \in {"unknown", ""}
           /\ IsDir(last'.frame.path)
           /\ Has(last'.frame.path, "Cargo.toml")) =>
             /\ next_id' = next_id + 1
             /\ active_server' = next_id
             /\ servers' = servers \cup {next_id}
             /\ adapters'[next_id].language = "rust"
             /\ adapters'[next_id].root_path = last'.frame.path
             /\ last'.reply.kind \in {"result", "error"}
             /\ last'.reply.code # -32601]_vars
    /\ []((last.frame.method = "initialize" /\ IsDir(last.frame.path)) =>
            LET dir == last.frame.path
            IN IF Has(dir, "Cargo.toml") THEN last.detected = "rust"
               ELSE IF Has(dir, "package.json")
               THEN last.detected = IF Has(dir, "tsconfig.json")
                                    THEN "typescript" ELSE "javascript"
               ELSE IF Has(dir, "pyproject.toml") \/ Has(dir, "requirements.txt")
               THEN last.detected = "python"
               ELSE IF SourceLanguages(dir) # {}
               THEN last.detected \in SourceLanguages(dir)
               ELSE last.detected = "none")

\* An initialize with an empty language for a directory that holds a
\* Cargo.toml next to a package.json, a tsconfig.json and a requirements.txt
\* has been answered with a result by a rust server rooted there.
C21_Witness ==
    /\ last.frame.method = "initialize"
    /\ last.frame.language = ""
    /\ last.frame.path = <<"mix">>
    /\ last.reply.kind = "result"
    /\ active_server # 0
    /\ active_server \in servers
    /\ adapters[active_server].language = "rust"
    /\ adapters[active_server].root_path = <<"mix">>
    /\ adapters[active_server].process # 0

\* C22: a call of shutdown on an adapter that holds no process (never
\* started, or shut down before) writes nothing to any child, kills nothing,
\* returns success and leaves the adapter as it was; and every call of shutdown
\* returns success and leaves the adapter without a process, so that a second
\* shutdown changes nothing.
C22_ShutdownIsIdempotent ==
    [][shutdown_calls'.n = shutdown_calls.n + 1 =>
          /\ shutdown_calls'.result = "ok"
          /\ adapters'[1].process = 0
          /\ adapters'[1].lsp_connection = NoConnection
          /\ adapters[1].process = 0 =>
                /\ adapters' = adapters
                /\ children' = children]_vars

\* The second of two shutdowns of an adapter that had spawned its child and
\* opened a document has returned.
C22_Witness ==
    /\ shutdown_calls.n = 2
    /\ children # <<>>
    /\ ~children[1].alive
    /\ Len(children[1].stdin) = 3
    /\ children[1].stdin[2].method = "shutdown"
    /\ children[1].stdin[3].method = "exit"
    /\ adapters[1].process = 0
    /\ adapters[1].document_data # EmptyMap

\* C23: a completion, hover, definition, references or formatting request
\* that the child answers with a null result returns Ok(None) to the caller
\* of the adapter, never an error, and the request was written to the child.
C23_NullResultIsEmptyNotError ==
    last_request.asked = "null" =>
        /\ last_request.method \in AdapterMethods
        /\ last_request.returned = "Ok(None)"
        /\ \E i \in 1..Len(Stdin) : Stdin[i].method = last_request.method

\* A references request answered with null, after a request answered with a
\* result.
C23_Witness ==
    /\ last_request.method = "textDocument/references"
    /\ last_request.asked = "null"
    /\ last_request.returned = "Ok(None)"
    /\ Len(Stdin) = 2
    /\ Stdin[1].method = "textDocument/formatting"

C25_SessionOnlyAfterSuccessfulInitialize ==
    (/\ last.frame.shape = "ok"
     /\ last.frame.method = "initialize"
     /\ last.frame.id # 0
     /\ last.fate = "returned"
     /\ last.session = 0
     /\ active_server # 0) =>
        last.reply.kind = "result"

\* What connection "B" and its client can see of the gateway.
ViewB ==
    [peer |-> [peers["B"] EXCEPT !.factory = 0],
     factory |-> IF peers["B"].factory = 0 THEN NewFactory
                 ELSE factories[peers["B"].factory]]

\* C26: whatever connection "A" has been sent (frames answered with errors,
\* frames that create a session, the end of the connection), the replies
\* queued for connection "B", its session, its registry of servers, their
\* documents and their children are those of a "B" that was alone.
C26_ConnectionsDoNotInfluenceEachOther == ViewB = shadow

\* Both connections have a session with the same server id and a running
\* child each, and "A" has been answered differently from "B".
C26_Witness ==
    /\ peers["A"].active_server = 1
    /\ peers["B"].active_server = 1
    /\ peers["A"].factory # peers["B"].factory
    /\ factories[peers["A"].factory].children # <<>>
    /\ factories[peers["B"].factory].children # <<>>
    /\ factories[peers["B"].factory].adapters[1].document_data # EmptyMap
    /\ factories[peers["A"].factory].adapters[1].document_data = EmptyMap
    /\ Len(peers["A"].replies) # Len(peers["B"].replies)

C28_FramesHandledOneAtATimeInOrder ==
    /\ [](/\ Cardinality(in_hand) <= 1
          /\ \A i, j \in DOMAIN tx : i < j => tx[i].n < tx[j].n
          /\ \A x \in in_hand : \A i \in DOMAIN tx : tx[i].n < x.n
          /\ \A x \in in_hand : \A i \in DOMAIN ws_rx : x.n < ws_rx[i].n)
    /\ [][in_hand' # in_hand /\ in_hand' # {} =>
            /\ in_hand = {}
            /\ \E x \in in_hand' : x.n = handled + 1 /\ x = Head(ws_rx)]_vars

\* The first frame has been answered, handle_message is running on the
\* second, and the third waits in the socket.
C28_Witness ==
    /\ arrived = 3
    /\ handled = 1
    /\ Len(tx) = 1
    /\ tx[1].n = 1
    /\ tx[1].reply.kind = "result"
    /\ \E x \in in_hand : x.n = 2 /\ x.frame.method = "textDocument/hover"
    /\ Len(ws_rx) = 1
    /\ ws_rx[1].n = 3
    /\ active_server # 0

\* What a document handler's call asks of the two collections dd and ds.
Reflects(dd, ds, call) ==
    CASE call.op = "didOpen" ->
           /\ call.uri \in DOMAIN dd
           /\ dd[call.uri] = DocumentData(call.changes[1], NoDiagnostics)
           /\ call.uri \in DOMAIN ds
           /\ ds[call.uri] = call.changes[1]
      [] call.op = "didChange" /\ call.changes # <<>> ->
           /\ call.uri \in DOMAIN dd
           /\ dd[call.uri].content = call.changes[Len(call.changes)]
           /\ call.uri \in DOMAIN ds
           /\ ds[call.uri] = call.changes[Len(call.changes)]
      [] call.op = "didClose" ->
           /\ call.uri \notin DOMAIN dd
           /\ call.uri \notin DOMAIN ds
      [] OTHER -> TRUE

\* C29: when did_open, did_change or did_close calls send_notification the
\* adapter's collections already hold what the call asks for, so no frame of
\* these methods reaches the child's stdin before the store is updated; and
\* once the handler has returned the store holds the update whether the
\* notification was written or failed for want of a link.
C29_StoreUpdatedBeforeForwarding ==
    /\ [](/\ doc_step.sent # "no" =>
                Reflects(doc_step.store_at_send, doc_step.states_at_send, doc_step)
          /\ doc_step.done = 2 =>
                Reflects(adapters[1].document_data, adapters[1].document_states,
                         doc_step))
    /\ [][(/\ children # <<>>
           /\ Len(children'[1].stdin) > Len(children[1].stdin)
           /\ children'[1].stdin[Len(children'[1].stdin)].method
                 \in {DocMethod("didOpen"), DocMethod("didChange"), DocMethod("didClose")}) =>
             /\ doc_step.op # "none"
             /\ children'[1].stdin[Len(children'[1].stdin)].method = DocMethod(doc_step.op)
             /\ Reflects(adapters[1].document_data, adapters[1].document_states,
                         doc_step)]_vars

\* A didOpen was written to the child after the store held the document;
\* the adapter was then shut down, and a did_change that found no link has
\* returned with its text in the store.
C29_Witness ==
    /\ doc_step.op = "didChange"
    /\ doc_step.changes = <<"t1", "t2">>
    /\ doc_step.done = 2
    /\ doc_step.sent = "failed"
    /\ ~adapters[1].lsp_connection.some
    /\ doc_step.uri \in DOMAIN adapters[1].document_data
    /\ adapters[1].document_data[doc_step.uri].content = "t2"
    /\ children # <<>>
    /\ \E i \in 1..Len(children[1].stdin) :
          children[1].stdin[i].method = "textDocument/didOpen"

\* The position in the child's stdin of the request caller c sent last.
LastRequestOf(c) ==
    CHOOSE i \in 1..Len(children[1].stdin) :
        /\ children[1].stdin[i].from = c
        /\ \A j \in (i + 1)..Len(children[1].stdin) : children[1].stdin[j].from # c

\* C30: whatever malformed frames the child has written (no Content-Length,
\* one that is not a number, a body that is not UTF-8 or no JSON-RPC
\* message), the read loop goes on and a well-formed response written later
\* reaches its caller: once the loop has read all it can of what a live
\* child wrote, it is still running and no caller is left waiting for a
\* request whose well-formed response the child has written.
C30_MalformedFramesAreSkipped ==
    (/\ children # <<>>
     /\ children[1].alive
     /\ reader # "none"
     /\ reader = "stopped" \/ read_line(wire, TRUE).status = "wait") =>
        /\ reader = "running"
        /\ \A c \in Callers :
              (callers[c].pc = "waiting" /\ callers[c].rx = "pending") =>
                 LastRequestOf(c) \notin answered

\* C31: a frame answered with error -32700, -32600, -32601 or -32602 leaves
\* the connection's active server, the registry of its factory (the ids and
\* the next id), every adapter and the life of every child as they were.
C31_LocalErrorsChangeNothing ==
    [][(/\ handled' = handled + 1
        /\ last'.fate = "returned"
        /\ last'.reply.kind = "error"
        /\ last'.reply.code \in {-32700, -32600, -32601, -32602}) =>
          /\ active_server' = active_server
          /\ servers' = servers
          /\ next_id' = next_id
          /\ adapters' = adapters
          /\ Len(children') = Len(children)
          /\ \A k \in DOMAIN children : children'[k].alive = children[k].alive]_vars

\* C32: a call of get_server_capabilities that returns leaves the ids, the
\* next id and the adapters of the factory as they were, and no child runs
\* after it that did not run before it.
C32_CapabilitiesLeaveNothingBehind ==
    [][(/\ entry'.n = entry.n + 1
        /\ entry'.op = "get_server_capabilities"
        /\ entry'.ok) =>
          /\ servers' = servers
          /\ next_id' = next_id
          /\ adapters' = adapters
          /\ \A k \in DOMAIN children' :
                children'[k].alive => (k \in DOMAIN children /\ children[k].alive)]_vars

\* C33: a call of shutdown on an adapter that holds a process leaves the
\* child dead, whether or not it had exited before; if the child was still
\* running and the adapter held a link, the child's stdin has received a
\* shutdown and then an exit notification, in that order, after everything
\* written before; and when the call returns the adapter holds no process,
\* no link and no notification channel, and is not initialized.
C33_ShutdownNotifiesThenKills ==
    [][(/\ shutdown_calls'.n = shutdown_calls.n + 1
        /\ adapters[1].process # 0) =>
          LET k == adapters[1].process
          IN /\ ~children'[k].alive
             /\ children'[k].stdin =
                   IF children[k].alive /\ adapters[1].lsp_connection.some
                   THEN children[k].stdin \o <<Frame("shutdown", 0, 0), Frame("exit", 0, 0)>>
                   ELSE children[k].stdin
             /\ adapters'[1].process = 0
             /\ adapters'[1].lsp_connection = NoConnection
             /\ adapters'[1].notification_tx = FALSE
             /\ adapters'[1].is_initialized = FALSE]_vars

\* One shutdown of an adapter whose child was running has returned: the
\* child has been sent shutdown and exit, and is dead.
C33_Witness ==
    /\ shutdown_calls.n = 1
    /\ children # <<>>
    /\ ~children[1].alive
    /\ Len(children[1].stdin) >= 2
    /\ children[1].stdin[Len(children[1].stdin) - 1].method = "shutdown"
    /\ children[1].stdin[Len(children[1].stdin)].method = "exit"
    /\ adapters[1].process = 0
    /\ ~adapters[1].is_initialized
    /\ ~adapters[1].notification_tx

C35_FailedWriteLeavesNoEntry ==
    [][\A c \in Callers :
          (callers[c].pc = "idle" /\ callers'[c].result = "write_failed") =>
             callers'[c].id \notin DOMAIN response_handlers']_vars

\* C36: in the parts written to the child's stdin every header is followed
\* at once by the body of its own frame (unless it is the last part written
\* so far), and every body follows the header of its own frame.
C36_FramesAreNotInterleaved ==
    \A i \in DOMAIN pipe :
       /\ (pipe[i].part = "header" /\ i < Len(pipe)) =>
             pipe[i + 1] = [frame |-> pipe[i].frame, part |-> "body"]
       /\ pipe[i].part = "body" =>
             (i > 1 /\ pipe[i - 1] = [frame |-> pipe[i].frame, part |-> "header"])

\* After a whole frame, one caller has written the header of its frame and
\* holds the guard, while another caller has a frame to write and waits for
\* the Mutex.
C36_Witness ==
    /\ Len(pipe) = 3
    /\ pipe[3].part = "header"
    /\ \E c, d \in Callers :
          /\ c # d
          /\ stdin_lock = c
          /\ writers[c].pc = "writing"
          /\ writers[c].frame = pipe[3].frame
          /\ writers[d].pc = "write_all"

\* C37: after every didOpen, didChange and didClose the adapter has handled,
\* document_data and document_states hold the same URIs, and for each URI
\* the content stored in document_data is the text stored in
\* document_states.
C37_DocumentStoresAgree ==
    /\ DOMAIN adapters[1].document_data = DOMAIN adapters[1].document_states
    /\ \A u \in DOMAIN adapters[1].document_data :
          adapters[1].document_data[u].content = adapters[1].document_states[u]

\* A didChange has returned and both collections hold two documents with
\* different texts.
C37_Witness ==
    /\ last_call.op = "didChange"
    /\ DOMAIN adapters[1].document_states = {"u1", "u2"}
    /\ DOMAIN adapters[1].document_data = {"u1", "u2"}
    /\ adapters[1].document_states["u1"] = "t2"
    /\ adapters[1].document_data["u1"].content = "t2"
    /\ adapters[1].document_states["u2"] = "t1"

\* C38: the registry of every manager holds only the senders of connections
\* that are open, and so no more entries than there are open connections.
C38_RegistryHoldsOnlyOpenConnections ==
    \A m \in DOMAIN managers :
       /\ \A k \in managers[m] : connections[k].open
       /\ Cardinality(managers[m]) <=
             Cardinality({k \in DOMAIN connections : connections[k].open})

\* C39: a call of find_project_root on the directory an earlier call for the
\* same language returned returns that directory again; and a call that
\* returns a directory other than the one it started in returns one that
\* is_project_root accepts for the language.
C39_FindProjectRootIsIdempotent ==
    /\ (/\ walk.pc = "returned"
        /\ entry.op = "find_project_root"
        /\ entry.ok
        /\ walk.language = entry.language
        /\ walk.file_path = entry.file_path) =>
          walk.result = Found(entry.file_path)
    /\ (/\ walk.pc = "returned"
        /\ walk.result.ok
        /\ walk.result.val # walk.start_dir) =>
          is_project_root(walk.language, walk.result.val)

\* C40: once every stdio-mode server thread start_lsp_server has spawned for
\* a language has stopped, with an error or because serving ended, the
\* language is not in ACTIVE_SERVERS.
C40_StoppedServerLeavesTheRegistry ==
    \A l \in {server_threads[i].language : i \in DOMAIN server_threads} :
       (\A i \in DOMAIN server_threads :
           server_threads[i].language = l =>
              server_threads[i].state \in {"failed", "ended"}) =>
          l \notin ACTIVE_SERVERS

====
